---------------------------- MODULE Spec2Model ----------------------------
(***************************************************************************)
(* Verification model of webauthn-dosipas:                                 *)
(*   - the ECDSA signature codec of src/src/lib/crypto.ts                  *)
(*     (p1363ToDer / derToP1363 and their helpers),                        *)
(*   - the two-pass issuance of src/function/src/dosipas.ts (issueDosipas) *)
(*     with its KMS signer,                                                *)
(*   - the HKDF key derivation of src/src/lib/crypto.ts (deriveKeys),      *)
(*   - the canonical JSON serializer of src/src/lib/crypto.ts              *)
(*     (canonicalJsonStringify) with JSON.stringify and JSON.parse,        *)
(*   - base64url, the JWK thumbprint, signPayload and verifySignature of   *)
(*     src/src/lib/crypto.ts and the payment store of                      *)
(*     src/src/lib/fakeBackend.ts,                                         *)
(*   - the handlers of App, PaymentScreen, TicketScreen, VerifierScreen    *)
(*     and BackendExplorer.                                                *)
(* Strings that are parsed or ordered are sequences of UTF-16 code units.  *)
(* Byte arrays are sequences of 0..255; JavaScript indices are 0-based and *)
(* are shifted by one where a sequence is indexed.                         *)
(***************************************************************************)
EXTENDS Integers, Sequences, FiniteSets, Bags, TLC

VARIABLES
    cOp,        \* codec: last call made ("idle", "encoded", "roundtrip", "decoded")
    cSig,       \* codec: the fixed-format input of p1363ToDer
    cDer,       \* codec: the DER bytes produced by p1363ToDer / given to derToP1363
    cOut,       \* codec: the bytes returned by derToP1363
    cThrown,    \* codec: TRUE iff the last call ended by throwing
    gcpProject, \* issuer: TRUE iff process.env.GCP_PROJECT is set
    iPc,        \* issuer, per operation: "idle", "awaitSign", "done", "failed"
    iReq,       \* issuer, per operation: <<req>>, the IssueRequest being served
    iPass1,     \* issuer, per operation: pass1Bytes
    iSigned,    \* issuer, per operation: the bytes handed to signWithKms
    iSig,       \* issuer, per operation: level1Signature returned by signWithKms
    iBarcode,   \* issuer, per operation: the barcode returned (hex digits)
    iSteps,     \* issuer, per operation: the calls made so far, in order
    iError,     \* issuer, per operation: the message of the error thrown
    dPc,        \* deriveKeys, per call: the await the call is suspended at
    dLocal,     \* deriveKeys, per call: its parameter and local constants
    dCount,     \* number of deriveKeys calls started so far
    dInfoUse,   \* every (info, purpose) pair HKDF has been asked for so far
    dLog,       \* what every returned deriveKeys call was given and returned
    jIn,        \* canonical JSON, per call: <<obj>>, the argument of the call
    jOut,       \* canonical JSON, per call: <<text>>, the string returned
    jAgain,     \* canonical JSON, per call: <<text>> of the parsed output, canonicalized
    localStorage, \* window.localStorage: the set of its <<key, value>> items
    sLive,      \* store: the payments stored and not deleted, cleared or overwritten
    sFound,     \* store: <<call>>, the lookup made since localStorage last changed
    sCount,     \* store: number of storePayment calls made so far
    kIssued,    \* signing: every signature crypto.subtle.sign made, and for what
    kVerified,  \* signing: <<call>>, the last verifySignature call and its outcome
    appState,   \* App: "auth", "payment", "ticket" or "error"
    appError,   \* App: error
    prfOutputHex, \* App: <<>> for "", else <<hex>>
    derivedKeysState, \* App: <<>> for null, else <<keys>>
    paymentRecord, \* App: <<>> for null, else <<record>>
    auth,       \* App: the bag of the handleAuthenticated calls in flight
    step,       \* PaymentScreen: "form", "processing" or "done"
    pay,        \* PaymentScreen: <<>>, else <<call>>, the handlePay call in flight
    signedPayload, \* TicketScreen: <<>> for null, else <<payload>>
    sigCount,   \* TicketScreen: sigCount
    ticketError, \* TicketScreen: error
    interval,   \* TicketScreen: <<>>, else <<props>>, the live effect and its timer
    signing,    \* TicketScreen: the signAndRender calls in flight
    activeTab,  \* App: "app", "verifier" or "backend"
    jsonInput,  \* VerifierScreen: the text to verify
    result,     \* VerifierScreen: <<>> for null, else <<result>>
    verifierError, \* VerifierScreen: error
    verifying,  \* VerifierScreen: verifying
    now         \* VerifierScreen: <<>>, else <<ms>>, the Date.now() of the result shown

codecVars == <<cOp, cSig, cDer, cOut, cThrown>>

issueVars == <<gcpProject, iPc, iReq, iPass1, iSigned, iSig, iBarcode, iSteps, iError>>

deriveVars == <<dPc, dLocal, dCount, dInfoUse, dLog>>

jsonVars == <<jIn, jOut, jAgain>>

storeVars == <<localStorage, sLive, sFound, sCount>>

signVars == <<kIssued, kVerified>>

appVars == <<appState, appError, prfOutputHex, derivedKeysState, paymentRecord, auth, step,
             pay, signedPayload, sigCount, ticketError, interval, signing, activeTab, jsonInput, result, verifierError, verifying, now>>

vars == <<codecVars, issueVars, deriveVars, jsonVars, storeVars, signVars, appVars>>

otherThanCodec == <<issueVars, deriveVars, jsonVars, storeVars, signVars, appVars>>
otherThanIssue == <<codecVars, deriveVars, jsonVars, storeVars, signVars, appVars>>
otherThanDerive == <<codecVars, issueVars, jsonVars, storeVars, signVars, appVars>>
otherThanJson == <<codecVars, issueVars, deriveVars, storeVars, signVars, appVars>>
otherThanStore == <<codecVars, issueVars, deriveVars, jsonVars, signVars, appVars>>
otherThanSign == <<codecVars, issueVars, deriveVars, jsonVars, storeVars, appVars>>
otherThanApp == <<codecVars, issueVars, deriveVars, jsonVars>>

---------------------------------------------------------------------------
(* JavaScript typed-array primitives used by the codec                     *)

\* The value of an out-of-range element read (undefined) and of arithmetic
\* on it (NaN); both are kept apart from every byte and every offset.
Undefined == 0 - 1
NaN == 0 - 1

Byte == 0..255

\* a[i] on a Uint8Array, i a 0-based index or NaN
At(a, i) == IF i # NaN /\ i >= 0 /\ i < Len(a) THEN a[i + 1] ELSE Undefined

\* x + y where x may be NaN and y may be undefined
Plus(x, y) == IF x = NaN \/ y = Undefined THEN NaN ELSE x + y

\* ToIntegerOrInfinity followed by the clamp of %TypedArray%.prototype.slice
\* (no negative argument occurs in the codec)
ClampIndex(i, n) == IF i = NaN THEN 0 ELSE IF i > n THEN n ELSE i

\* a.slice(from, to)
Slice(a, from, to) ==
    LET f == ClampIndex(from, Len(a))
        t == ClampIndex(to, Len(a))
    IN  IF t <= f THEN <<>> ELSE SubSeq(a, f + 1, t)

\* new Uint8Array(n)
NewU8(n) == [i \in 1..n |-> 0]

\* target.set(src, off) throws a RangeError unless src fits
U8SetFits(target, src, off) == off + Len(src) <= Len(target)

\* target.set(src, off)
U8Set(target, src, off) ==
    IF U8SetFits(target, src, off)
    THEN [i \in 1..Len(target) |->
            IF i > off /\ i <= off + Len(src) THEN src[i - off] ELSE target[i]]
    ELSE target

\* target[i] = v (stores v modulo 2^8; a store past the end is ignored)
U8Store(target, i, v) ==
    IF i < Len(target) THEN [target EXCEPT ![i + 1] = v % 256] ELSE target

\* b & 0x80, with undefined converted to 0
And80(b) == IF b = Undefined THEN 0 ELSE IF b >= 128 THEN 128 ELSE 0

---------------------------------------------------------------------------
(* P1363 <-> ASN.1 DER conversion (src/src/lib/crypto.ts)                  *)

TAG_SEQUENCE == 48
TAG_INTEGER == 2
HalfLen == 32
SigLen == 64

\* while (start < val.length - 1 && val[start] === 0) start++
RECURSIVE SkipLeadingZeros(_, _)
SkipLeadingZeros(val, start) ==
    IF start < Len(val) - 1 /\ At(val, start) = 0
    THEN SkipLeadingZeros(val, start + 1)
    ELSE start

\* integerToDer without the stripping loop
integerToDerNoStrip(val) ==
    LET needsPad == And80(At(val, 0))
        len == Len(val) + (IF needsPad # 0 THEN 1 ELSE 0)
        out == U8Store(U8Store(NewU8(2 + len), 0, TAG_INTEGER), 1, len)
    IN  IF needsPad # 0 THEN U8Set(U8Store(out, 2, 0), val, 3) ELSE U8Set(out, val, 2)

\* integerToDer: strip leading zeros (keep one byte), prepend 0x00 if the
\* high bit is set
integerToDer(val) ==
    LET start == SkipLeadingZeros(val, 0)
        trimmed == Slice(val, start, Len(val))
        needsPad == And80(At(trimmed, 0))
        len == Len(trimmed) + (IF needsPad # 0 THEN 1 ELSE 0)
        out == U8Store(U8Store(NewU8(2 + len), 0, TAG_INTEGER), 1, len)
    IN  IF needsPad # 0
        THEN U8Set(U8Store(out, 2, 0), trimmed, 3)
        ELSE U8Set(out, trimmed, 2)

\* p1363ToDer with s sliced one byte early
p1363ToDerEarlySlice(sig) ==
    LET rDer == integerToDer(Slice(sig, 0, HalfLen))
        sDer == integerToDer(Slice(sig, HalfLen - 1, SigLen))
        seqLen == Len(rDer) + Len(sDer)
        der == U8Store(U8Store(NewU8(2 + seqLen), 0, TAG_SEQUENCE), 1, seqLen)
    IN  U8Set(U8Set(der, rDer, 2), sDer, 2 + Len(rDer))

\* p1363ToDer: SEQUENCE { INTEGER r, INTEGER s }
p1363ToDer(sig) ==
    LET r == Slice(sig, 0, HalfLen)
        s == Slice(sig, HalfLen, SigLen)
        rDer == integerToDer(r)
        sDer == integerToDer(s)
        seqLen == Len(rDer) + Len(sDer)
        der == U8Store(U8Store(NewU8(2 + seqLen), 0, TAG_SEQUENCE), 1, seqLen)
    IN  U8Set(U8Set(der, rDer, 2), sDer, 2 + Len(rDer))

\* p1363ToDer throws only if one of its set() calls does not fit
p1363ToDerThrows(sig) ==
    LET rDer == integerToDer(Slice(sig, 0, HalfLen))
        sDer == integerToDer(Slice(sig, HalfLen, SigLen))
        der == NewU8(2 + Len(rDer) + Len(sDer))
    IN  \/ ~U8SetFits(der, rDer, 2)
        \/ ~U8SetFits(der, sDer, 2 + Len(rDer))

\* readDerInteger: the value bytes of the INTEGER at offset, leading zeros
\* stripped
readDerInteger(der, offset) ==
    LET len == At(der, Plus(offset, 1))
        value == Slice(der, Plus(offset, 2), Plus(Plus(offset, 2), len))
        start == SkipLeadingZeros(value, 0)
    IN  Slice(value, start, Len(value))

\* padTo32 padding on the right
padTo32Right(val) ==
    IF Len(val) >= HalfLen
    THEN Slice(val, Len(val) - HalfLen, Len(val))
    ELSE U8Set(NewU8(HalfLen), val, 0)

\* padTo32: left-pad to 32 bytes; a longer value keeps its last 32 bytes
padTo32(val) ==
    IF Len(val) >= HalfLen
    THEN Slice(val, Len(val) - HalfLen, Len(val))
    ELSE U8Set(NewU8(HalfLen), val, HalfLen - Len(val))

\* derToP1363: r || s, each left-padded to 32 bytes
derToP1363(der) ==
    LET offset0 == 2
        r == readDerInteger(der, offset0)
        offset1 == Plus(offset0, Plus(2, At(der, Plus(offset0, 1))))
        s == readDerInteger(der, offset1)
    IN  U8Set(U8Set(NewU8(SigLen), padTo32(r), 0), padTo32(s), HalfLen)

\* derToP1363 throws only if one of its set() calls does not fit
derToP1363Throws(der) ==
    LET r == readDerInteger(der, 2)
        offset1 == Plus(2, Plus(2, At(der, 3)))
        s == readDerInteger(der, offset1)
    IN  \/ ~U8SetFits(NewU8(SigLen), padTo32(r), 0)
        \/ ~U8SetFits(NewU8(SigLen), padTo32(s), HalfLen)

---------------------------------------------------------------------------
(* Inputs of the codec                                                     *)

\* Index of the last byte value of the pool the inputs are built from
MaxByteIdx == 3

ByteVal(i) ==
    CASE i = 0 -> 0
      [] i = 1 -> 128
      [] i = 2 -> 1
      [] i = 3 -> 255
      [] i = 4 -> 127
      [] OTHER -> (i * 37) % 256

BytePool == {ByteVal(i) : i \in 0..MaxByteIdx}

Fill(b, n) == [i \in 1..n |-> b]

\* A 32-byte half: z zero bytes, then byte b, then bytes f
Half(z, b, f) ==
    IF z >= HalfLen THEN Fill(0, HalfLen)
    ELSE Fill(0, z) \o <<b>> \o Fill(f, HalfLen - z - 1)

LeadZeroCounts == {0, 1, HalfLen \div 2, HalfLen - 1, HalfLen}

Halves == {Half(z, b, f) : z \in LeadZeroCounts, b \in BytePool, f \in BytePool}

\* 64-byte fixed-format signatures r || s
FixedSigs == {r \o s : r \in Halves, s \in Halves}

\* Inputs of p1363ToDer that are not 64 bytes long
WrongLens == {0, 1, HalfLen - 1, HalfLen, HalfLen + 1, SigLen - 1, SigLen + 1}

WrongSigs == {Fill(b, n) : b \in BytePool, n \in WrongLens}

\* DER byte strings handed to derToP1363 by a caller (a scanned payload):
\* encodings of the pool's signatures, damaged in the ways a decoder meets
SampleSigs == {Fill(b, HalfLen) \o Fill(c, HalfLen) : b \in BytePool, c \in BytePool}

Damaged(d) ==
    {d,
     U8Store(d, 0, TAG_SEQUENCE + 1),
     U8Store(d, 2, TAG_INTEGER + 1),
     U8Store(d, 4 + d[4], TAG_INTEGER + 1),
     U8Store(d, 1, d[2] + 1),
     U8Store(d, 3, d[4] + 40)}
    \cup {Slice(d, 0, k) : k \in {0, 1, 2, 3, 4, Len(d) - 1}}

OverlongInteger(b) ==
    <<TAG_SEQUENCE, HalfLen + 3 + 2 + 3, TAG_INTEGER, HalfLen + 3>>
        \o Fill(b, HalfLen + 3) \o <<TAG_INTEGER, 1, 1>>

PaddedInteger(b) ==
    <<TAG_SEQUENCE, 8, TAG_INTEGER, 3, 0, 0, b, TAG_INTEGER, 1, 1>>

ForeignDers ==
    UNION {Damaged(p1363ToDer(sg)) : sg \in SampleSigs}
        \cup {OverlongInteger(b) : b \in BytePool \ {0}}
        \cup {PaddedInteger(b) : b \in BytePool}

---------------------------------------------------------------------------
(* Codec calls                                                             *)

InitCodec ==
    /\ cOp = "idle"
    /\ cSig = <<>>
    /\ cDer = <<>>
    /\ cOut = <<>>
    /\ cThrown = FALSE

\* signPayload's conversion: derSig = p1363ToDer(new Uint8Array(p1363Sig))
CodecEncode(sig) ==
    /\ cOp = "idle"
    /\ cOp' = "encoded"
    /\ cSig' = sig
    /\ cThrown' = p1363ToDerThrows(sig)
    /\ cDer' = IF p1363ToDerThrows(sig) THEN <<>> ELSE p1363ToDer(sig)
    /\ cOut' = <<>>

\* verifySignature's conversion applied to the encoder's own output
CodecDecodeOwn ==
    /\ cOp = "encoded"
    /\ ~cThrown
    /\ cOp' = "roundtrip"
    /\ cThrown' = derToP1363Throws(cDer)
    /\ cOut' = IF derToP1363Throws(cDer) THEN <<>> ELSE derToP1363(cDer)
    /\ UNCHANGED <<cSig, cDer>>

\* verifySignature's conversion applied to bytes received from outside
CodecDecode(der) ==
    /\ cOp = "idle"
    /\ cOp' = "decoded"
    /\ cSig' = <<>>
    /\ cDer' = der
    /\ cThrown' = derToP1363Throws(der)
    /\ cOut' = IF derToP1363Throws(der) THEN <<>> ELSE derToP1363(der)

CodecReturn ==
    /\ cOp # "idle"
    /\ cOp' = "idle"
    /\ cSig' = <<>>
    /\ cDer' = <<>>
    /\ cOut' = <<>>
    /\ cThrown' = FALSE

EncodeFixed == \E sig \in FixedSigs : CodecEncode(sig) /\ UNCHANGED otherThanCodec
EncodeWrongLength == \E sig \in WrongSigs : CodecEncode(sig) /\ UNCHANGED otherThanCodec
DecodeOwn == CodecDecodeOwn /\ UNCHANGED otherThanCodec
DecodeForeign == \E der \in ForeignDers : CodecDecode(der) /\ UNCHANGED otherThanCodec
Return64 == CodecReturn /\ UNCHANGED otherThanCodec

NextCodec ==
    \/ EncodeFixed
    \/ EncodeWrongLength
    \/ DecodeOwn
    \/ DecodeForeign
    \/ Return64

---------------------------------------------------------------------------
(* Two-pass issuance (src/function/src/dosipas.ts) and its collaborators   *)

EC_P256_KEY_ALG == "1.2.840.10045.3.1.7"
ECDSA_SHA256_SIGNING_ALG == "1.2.840.10045.4.3.2"

\* An optional string member that is absent from the request
NoString == "undefined"

\* a ?? b, for an optional number and for an optional string
CoalesceNum(a, b) == IF a = Undefined THEN b ELSE a
CoalesceStr(a, b) == IF a = NoString THEN b ELSE a

\* Buffer.from(text, "base64"): text is given as its sequence of 6-bit
\* digits; every 4 digits yield 3 bytes, 3 digits 2 bytes, 2 digits 1 byte
Base64Decode(digits) ==
    LET n == Len(digits)
        D(i) == IF i <= n THEN digits[i] ELSE 0
        nBytes == (n \div 4) * 3
                    + (CASE n % 4 = 2 -> 1 [] n % 4 = 3 -> 2 [] OTHER -> 0)
        ByteAt(k) ==
            LET q == 4 * ((k - 1) \div 3) + 1
            IN  CASE (k - 1) % 3 = 0 -> D(q) * 4 + D(q + 1) \div 16
                  [] (k - 1) % 3 = 1 -> (D(q + 1) % 16) * 16 + D(q + 2) \div 4
                  [] OTHER -> (D(q + 2) % 4) * 64 + D(q + 3)
    IN  [k \in 1..nBytes |-> ByteAt(k)]

\* baseInput of issueDosipas
BaseInput(req) ==
    [headerVersion |-> CoalesceNum(req.headerVersion, 2),
     fcbVersion |-> CoalesceNum(req.fcbVersion, 2),
     securityProviderNum |-> req.securityProviderNum,
     keyId |-> req.keyId,
     level1KeyAlg |-> EC_P256_KEY_ALG,
     level1SigningAlg |-> ECDSA_SHA256_SIGNING_ALG,
     level2KeyAlg |-> CoalesceStr(req.level2KeyAlg, EC_P256_KEY_ALG),
     level2SigningAlg |-> CoalesceStr(req.level2SigningAlg, ECDSA_SHA256_SIGNING_ALG),
     level2PublicKey |-> Base64Decode(req.level2PublicKey),
     railTicket |-> req.railTicket]

WithSignature(input, sig) ==
    [headerVersion |-> input.headerVersion,
     fcbVersion |-> input.fcbVersion,
     securityProviderNum |-> input.securityProviderNum,
     keyId |-> input.keyId,
     level1KeyAlg |-> input.level1KeyAlg,
     level1SigningAlg |-> input.level1SigningAlg,
     level2KeyAlg |-> input.level2KeyAlg,
     level2SigningAlg |-> input.level2SigningAlg,
     level2PublicKey |-> input.level2PublicKey,
     railTicket |-> input.railTicket,
     level1Signature |-> sig]

\* new Uint8Array(72): the placeholder signature
DummySignatureLen == 72
dummySignature == NewU8(DummySignatureLen)

\* pass1Input = { ...baseInput, level1Signature: dummySignature }
Pass1Input(req) == WithSignature(BaseInput(req), dummySignature)

\* a final input rebuilt without the request's key id
FinalInputNoKeyId(req, level1Signature) ==
    WithSignature([BaseInput(req) EXCEPT !.keyId = Undefined], level1Signature)

\* finalInput = { ...baseInput, level1Signature }
FinalInput(req, level1Signature) == WithSignature(BaseInput(req), level1Signature)

---------------------------------------------------------------------------
(* The document encoder of dosipas-ts, an external collaborator: its byte  *)
(* layout is taken from its contract (encode(fields) -> bytes,             *)
(* extractSignedRange(bytes) -> byte range): a format byte, the level-1    *)
(* data and the level-1 signature each behind a length determinant, and a  *)
(* closing byte for the absent level-2 part.                               *)

\* Length determinant: one byte below 128, two bytes below 16384
LenDet(n) == IF n < 128 THEN <<n>> ELSE <<128 + (n \div 256), n % 256>>

LenDetSize(bytes, pos) == IF bytes[pos] < 128 THEN 1 ELSE 2

LenDetValue(bytes, pos) ==
    IF bytes[pos] < 128 THEN bytes[pos]
    ELSE (bytes[pos] - 128) * 256 + bytes[pos + 1]

OidCode(oid) ==
    CASE oid = EC_P256_KEY_ALG -> 1
      [] oid = ECDSA_SHA256_SIGNING_ALG -> 2
      [] OTHER -> 3

OptionalByte(v) == IF v = Undefined THEN <<>> ELSE <<v % 256>>

\* The level-1 data: every field of the input but the signature
Level1Data(input) ==
    <<(IF input.securityProviderNum = Undefined THEN 0 ELSE 1)
        + (IF input.keyId = Undefined THEN 0 ELSE 2)>>
        \o OptionalByte(input.securityProviderNum)
        \o OptionalByte(input.keyId)
        \o <<OidCode(input.level1KeyAlg), OidCode(input.level1SigningAlg),
             OidCode(input.level2KeyAlg), OidCode(input.level2SigningAlg)>>
        \o LenDet(Len(input.level2PublicKey)) \o input.level2PublicKey
        \o <<input.fcbVersion>>
        \o LenDet(Len(input.railTicket.reference)) \o input.railTicket.reference

\* The encoder refuses the versions it does not know
EncodeThrows(input) ==
    \/ input.headerVersion \notin {1, 2}
    \/ input.fcbVersion \notin {1, 2, 3}

ClosingByte == 0

encodeTicketToBytes(input) ==
    LET l1 == Level1Data(input)
    IN  <<input.headerVersion>> \o LenDet(Len(l1)) \o l1
            \o LenDet(Len(input.level1Signature)) \o input.level1Signature
            \o <<ClosingByte>>

\* Hexadecimal text, given as its sequence of 4-bit digits
HexEncode(bytes) ==
    [i \in 1..(2 * Len(bytes)) |->
        IF i % 2 = 1 THEN bytes[(i + 1) \div 2] \div 16 ELSE bytes[i \div 2] % 16]

HexDecode(digits) ==
    [i \in 1..(Len(digits) \div 2) |-> digits[2 * i - 1] * 16 + digits[2 * i]]

\* encodeTicket: the hex text of the encoded bytes
encodeTicket(input) == HexEncode(encodeTicketToBytes(input))

\* extractSignedData fails when the document does not hold the structure
ExtractThrows(bytes) ==
    \/ Len(bytes) < 2
    \/ Len(bytes) < 1 + LenDetSize(bytes, 2)
    \/ Len(bytes) < 1 + LenDetSize(bytes, 2) + LenDetValue(bytes, 2) + 1

\* extractSignedData: the level-1 data bytes and the level-1 signature
extractSignedData(bytes) ==
    LET l1From == 2 + LenDetSize(bytes, 2)
        l1To == l1From + LenDetValue(bytes, 2) - 1
        sigAt == l1To + 1
        sigFrom == sigAt + LenDetSize(bytes, sigAt)
    IN  [level1DataBytes |-> SubSeq(bytes, l1From, l1To),
         level1Signature |->
            SubSeq(bytes, sigFrom, sigFrom + LenDetValue(bytes, sigAt) - 1)]

---------------------------------------------------------------------------
(* issueDosipas and signWithKms                                            *)

\* Concurrent issuance operations (requests being served by the endpoint)
Ops == {1, 2}

\* Index of the longest ticket reference of the request pool
MaxRefIdx == 2
RefStep == 60
RefLens == {1 + k * RefStep : k \in 0..MaxRefIdx}

PubKeyTexts == {<<1, 2, 3, 4>>, <<63, 0, 17, 32, 5, 48>>}

MinimalRequest(pk, ref) ==
    [level2PublicKey |-> pk, level2KeyAlg |-> NoString,
     level2SigningAlg |-> NoString, securityProviderNum |-> Undefined,
     keyId |-> Undefined, headerVersion |-> Undefined,
     fcbVersion |-> Undefined, railTicket |-> [reference |-> ref]]

FullRequest(pk, ref) ==
    [level2PublicKey |-> pk, level2KeyAlg |-> "1.3.132.0.34",
     level2SigningAlg |-> "1.2.840.10045.4.3.3", securityProviderNum |-> 80,
     keyId |-> 7, headerVersion |-> 1,
     fcbVersion |-> 3, railTicket |-> [reference |-> ref]]

BadVersionRequest(pk, ref) ==
    [MinimalRequest(pk, ref) EXCEPT !.headerVersion = 3]

Requests ==
    UNION {{MinimalRequest(pk, Fill(65, n)), FullRequest(pk, Fill(66, n)),
            BadVersionRequest(pk, Fill(67, n))} :
                pk \in PubKeyTexts, n \in RefLens}

\* DER signatures the HSM can return: 8, 70, 71 and 72 bytes long
KmsSignatures ==
    {p1363ToDer(Fill(b[1], HalfLen) \o Fill(b[2], HalfLen)) :
        b \in {<<0, 0>>, <<1, 1>>, <<1, 255>>, <<255, 255>>}}

\* What client.asymmetricSign can answer: a signature, a response without
\* one, or a rejection (the service cannot be reached)
KmsResponses ==
    {[kind |-> "signature", signature |-> s] : s \in KmsSignatures}
        \cup {[kind |-> "noSignature", signature |-> <<>>],
              [kind |-> "rejected", signature |-> <<>>]}

\* The messages of the errors the dosipas-ts encoder and decoder throw; the
\* encoder throws the same error from encodeTicketToBytes and encodeTicket
ENCODER_ERROR == "unsupported version"
DECODER_ERROR == "truncated document"

\* the argument of signWithKms taken to be the whole pass-1 document
SignerInputWholeDocument(pass1Bytes) == pass1Bytes

\* const { level1DataBytes } = extractSignedData(pass1Bytes);
\* signWithKms(level1DataBytes)
SignerInput(pass1Bytes) == extractSignedData(pass1Bytes).level1DataBytes

\* issueDosipas calling the signer before the extraction has been checked
StartOutcomeSignsFirst(req, project) ==
    LET pass1Bytes == encodeTicketToBytes(Pass1Input(req))
    IN  [pc |-> "awaitSign", steps |-> <<"encode1", "sign", "rpc", "extract">>,
         pass1 |-> pass1Bytes, signed |-> pass1Bytes, error |-> ""]

\* issueDosipas up to its await: pass 1, extraction, the call of
\* signWithKms, which throws without GCP_PROJECT and else sends the request
StartOutcome(req, project) ==
    LET pass1Input == Pass1Input(req)
        pass1Bytes == encodeTicketToBytes(pass1Input)
    IN  IF EncodeThrows(pass1Input)
        THEN [pc |-> "failed", steps |-> <<"encode1">>,
              pass1 |-> <<>>, signed |-> <<>>, error |-> ENCODER_ERROR]
        ELSE IF ExtractThrows(pass1Bytes)
        THEN [pc |-> "failed", steps |-> <<"encode1", "extract">>,
              pass1 |-> pass1Bytes, signed |-> <<>>, error |-> DECODER_ERROR]
        ELSE IF ~project
        THEN [pc |-> "failed", steps |-> <<"encode1", "extract", "sign">>,
              pass1 |-> pass1Bytes, signed |-> SignerInput(pass1Bytes),
              error |-> "GCP_PROJECT environment variable is required"]
        ELSE [pc |-> "awaitSign", steps |-> <<"encode1", "extract", "sign", "rpc">>,
              pass1 |-> pass1Bytes, signed |-> SignerInput(pass1Bytes), error |-> ""]

\* issueDosipas encoding pass 2 whatever the signer answered
ResumeOutcomeIgnoresFailure(req, response) ==
    [pc |-> "done", steps |-> <<"encode2">>, sig |-> response.signature,
     barcode |-> encodeTicket(FinalInput(req, response.signature)), error |-> ""]

\* issueDosipas from the signer's answer on: signWithKms throws on a
\* rejection or a missing signature, else pass 2 is encoded
ResumeOutcome(req, response) ==
    IF response.kind = "rejected"
    THEN [pc |-> "failed", steps |-> <<>>, sig |-> <<>>, barcode |-> <<>>,
          error |-> "asymmetricSign rejected"]
    ELSE IF response.signature = <<>>
    THEN [pc |-> "failed", steps |-> <<>>, sig |-> <<>>, barcode |-> <<>>,
          error |-> "KMS asymmetricSign returned no signature"]
    ELSE IF EncodeThrows(FinalInput(req, response.signature))
    THEN [pc |-> "failed", steps |-> <<"encode2">>, sig |-> response.signature,
          barcode |-> <<>>, error |-> ENCODER_ERROR]
    ELSE [pc |-> "done", steps |-> <<"encode2">>, sig |-> response.signature,
          barcode |-> encodeTicket(FinalInput(req, response.signature)),
          error |-> ""]

InitIssue ==
    /\ gcpProject \in BOOLEAN
    /\ iPc = [o \in Ops |-> "idle"]
    /\ iReq = [o \in Ops |-> <<>>]
    /\ iPass1 = [o \in Ops |-> <<>>]
    /\ iSigned = [o \in Ops |-> <<>>]
    /\ iSig = [o \in Ops |-> <<>>]
    /\ iBarcode = [o \in Ops |-> <<>>]
    /\ iSteps = [o \in Ops |-> <<>>]
    /\ iError = [o \in Ops |-> ""]

\* issueDosipas(req), run to its first suspension or to its throw
IssueStart(o, req) ==
    /\ iPc[o] = "idle"
    /\ LET out == StartOutcome(req, gcpProject)
       IN  /\ iPc' = [iPc EXCEPT ![o] = out.pc]
           /\ iReq' = [iReq EXCEPT ![o] = <<req>>]
           /\ iPass1' = [iPass1 EXCEPT ![o] = out.pass1]
           /\ iSigned' = [iSigned EXCEPT ![o] = out.signed]
           /\ iSteps' = [iSteps EXCEPT ![o] = out.steps]
           /\ iError' = [iError EXCEPT ![o] = out.error]
    /\ UNCHANGED <<gcpProject, iSig, iBarcode>>

\* issueDosipas resuming with the request of the other operation when that
\* one has started, as if baseInput were kept in a variable of the module
KmsRespondShared(o, response) ==
    /\ iPc[o] = "awaitSign"
    /\ LET q == CHOOSE q \in Ops : q # o
           req == IF iReq[q] # <<>> THEN iReq[q][1] ELSE iReq[o][1]
           out == ResumeOutcome(req, response)
       IN  /\ iPc' = [iPc EXCEPT ![o] = out.pc]
           /\ iSig' = [iSig EXCEPT ![o] = out.sig]
           /\ iBarcode' = [iBarcode EXCEPT ![o] = out.barcode]
           /\ iSteps' = [iSteps EXCEPT ![o] = iSteps[o] \o out.steps]
           /\ iError' = [iError EXCEPT ![o] = out.error]
    /\ UNCHANGED <<gcpProject, iReq, iPass1, iSigned>>

\* the answer of client.asymmetricSign arrives and issueDosipas runs on to
\* its return or its throw
KmsRespond(o, response) ==
    /\ iPc[o] = "awaitSign"
    /\ LET out == ResumeOutcome(iReq[o][1], response)
       IN  /\ iPc' = [iPc EXCEPT ![o] = out.pc]
           /\ iSig' = [iSig EXCEPT ![o] = out.sig]
           /\ iBarcode' = [iBarcode EXCEPT ![o] = out.barcode]
           /\ iSteps' = [iSteps EXCEPT ![o] = iSteps[o] \o out.steps]
           /\ iError' = [iError EXCEPT ![o] = out.error]
    /\ UNCHANGED <<gcpProject, iReq, iPass1, iSigned>>

\* the caller has taken the result; the operation's locals are gone
IssueReturn(o) ==
    /\ iPc[o] \in {"done", "failed"}
    /\ iPc' = [iPc EXCEPT ![o] = "idle"]
    /\ iReq' = [iReq EXCEPT ![o] = <<>>]
    /\ iPass1' = [iPass1 EXCEPT ![o] = <<>>]
    /\ iSigned' = [iSigned EXCEPT ![o] = <<>>]
    /\ iSig' = [iSig EXCEPT ![o] = <<>>]
    /\ iBarcode' = [iBarcode EXCEPT ![o] = <<>>]
    /\ iSteps' = [iSteps EXCEPT ![o] = <<>>]
    /\ iError' = [iError EXCEPT ![o] = ""]
    /\ UNCHANGED gcpProject

\* What POST /v1/issue answers for a request that has level2PublicKey and
\* railTicket: res.json(result), or status 500 with the message of the error
PostIssue(pc, barcode, error) ==
    IF pc = "done"
    THEN [status |-> 200, body |-> [barcode |-> barcode]]
    ELSE [status |-> 500, body |-> [error |-> error]]

Start == \E o \in Ops, req \in Requests : IssueStart(o, req) /\ UNCHANGED otherThanIssue
Respond == \E o \in Ops, r \in KmsResponses : KmsRespond(o, r) /\ UNCHANGED otherThanIssue
Return == \E o \in Ops : IssueReturn(o) /\ UNCHANGED otherThanIssue

NextIssue == Start \/ Respond \/ Return

---------------------------------------------------------------------------
(* Key derivation (src/src/lib/crypto.ts, deriveKeys)                      *)
(* The Web Crypto primitives are injective term constructors: two outputs  *)
(* are equal exactly when the primitive was given equal inputs.            *)

PKCS8_P256_PREFIX ==
    <<48, 65, 2, 1, 0, 48, 19, 6, 7, 42, 134, 72,
      206, 61, 2, 1, 6, 8, 42, 134, 72, 206, 61, 3,
      1, 7, 4, 39, 48, 37, 2, 1, 1, 4, 32>>

\* new TextEncoder().encode(text)
Utf8(text) == <<"utf8", text>>

\* crypto.subtle.digest("SHA-256", data)
Sha256(data) == <<"sha256", data>>

\* the salt input made to differ from one call to the next
HkdfSaltInputPerCall == <<"utf8", "dosipas-hkdf-salt-v1", dCount>>

HKDF_SALT_INPUT == Utf8("dosipas-hkdf-salt-v1")

\* getHkdfSalt
getHkdfSalt == Sha256(HKDF_SALT_INPUT)

\* the info of the AES derivation pasted into the ECDSA derivation
EcdsaInfoPasted == Utf8("dosipas-aes-gcm")

AES_INFO == Utf8("dosipas-aes-gcm")
ECDSA_INFO == Utf8("dosipas-ecdsa-p256")

\* importKey("raw", prfOutput, "HKDF", ...)
ImportHkdf(prfOutput) == [algorithm |-> "HKDF", raw |-> prfOutput]

\* HKDF-SHA-256 output of the given length
Hkdf(ikm, salt, info, bits) ==
    [hash |-> "SHA-256", ikm |-> ikm.raw, salt |-> salt, info |-> info, bits |-> bits]

\* deriveKey(..., { name: "AES-GCM", length: 256 }, ...)
DeriveAesKey(ikm, salt) == [algorithm |-> "AES-GCM", raw |-> Hkdf(ikm, salt, AES_INFO, 256)]

\* new Uint8Array(await deriveBits(..., 256))
DeriveEcdsaScalar(ikm, salt) == Hkdf(ikm, salt, ECDSA_INFO, 256)

\* importKey("pkcs8", PKCS8_P256_PREFIX || scalar, ECDSA P-256)
ImportPkcs8(prefix, scalar) ==
    [algorithm |-> "ECDSA", namedCurve |-> "P-256", type |-> "private",
     container |-> prefix, d |-> scalar]

\* exportKey("jwk", privateKey): the public point is computed from d
ExportJwk(privateKey) ==
    [kty |-> "EC", crv |-> privateKey.namedCurve,
     x |-> <<"x", privateKey.d>>, y |-> <<"y", privateKey.d>>,
     d |-> <<"b64u", privateKey.d>>]

\* publicKeyJwk = { kty, crv, x, y } of the exported private JWK
PublicJwk(jwkPrivate) ==
    [kty |-> jwkPrivate.kty, crv |-> jwkPrivate.crv, x |-> jwkPrivate.x, y |-> jwkPrivate.y]

\* importKey("jwk", publicKeyJwk, ECDSA P-256)
ImportPublicJwk(jwk) ==
    [algorithm |-> "ECDSA", namedCurve |-> jwk.crv, type |-> "public", x |-> jwk.x, y |-> jwk.y]

\* bytesToHex
bytesToHex(bytes) == <<"hex", bytes>>

\* Concurrent deriveKeys calls
Calls == {1, 2}

\* deriveKeys calls made in one run
MaxDerivations == 3

PrfLen == 32

\* PRF outputs of the authenticator
Secrets == {Fill(0, PrfLen), Fill(1, PrfLen), Fill(255, PrfLen)}

\* Byte arrays of another length: deriveKeys takes any Uint8Array
ShortSecrets == {Fill(1, PrfLen \div 2), Fill(1, PrfLen + 1)}

DeriveInputs == Secrets \cup ShortSecrets

NoLocals ==
    [prfOutput |-> <<>>, salt |-> <<>>, ikm |-> <<>>, aesKey |-> <<>>,
     ecdsaScalar |-> <<>>, ecdsaPrivateKey |-> <<>>, jwkPrivate |-> <<>>,
     result |-> <<>>]

InitDerive ==
    /\ dPc = [c \in Calls |-> "idle"]
    /\ dLocal = [c \in Calls |-> NoLocals]
    /\ dCount = 0
    /\ dInfoUse = {}
    /\ dLog = {}

\* deriveKeys(prfOutput) up to: await getHkdfSalt()
DeriveCall(c, prfOutput) ==
    /\ dPc[c] = "idle"
    /\ dCount < MaxDerivations
    /\ dCount' = dCount + 1
    /\ dPc' = [dPc EXCEPT ![c] = "getHkdfSalt"]
    /\ dLocal' = [dLocal EXCEPT ![c] = [NoLocals EXCEPT !.prfOutput = <<prfOutput>>]]
    /\ UNCHANGED <<dInfoUse, dLog>>

\* salt is set; up to: await importKey("raw", ...)
DeriveSalt(c) ==
    /\ dPc[c] = "getHkdfSalt"
    /\ dPc' = [dPc EXCEPT ![c] = "importRaw"]
    /\ dLocal' = [dLocal EXCEPT ![c].salt = <<getHkdfSalt>>]
    /\ UNCHANGED <<dCount, dInfoUse, dLog>>

\* ikm is set; up to: await deriveKey(...)
DeriveIkm(c) ==
    /\ dPc[c] = "importRaw"
    /\ dPc' = [dPc EXCEPT ![c] = "deriveKey"]
    /\ dLocal' = [dLocal EXCEPT ![c].ikm = <<ImportHkdf(dLocal[c].prfOutput[1])>>]
    /\ UNCHANGED <<dCount, dInfoUse, dLog>>

\* aesKey is set; up to: await deriveBits(...)
DeriveAes(c) ==
    /\ dPc[c] = "deriveKey"
    /\ dPc' = [dPc EXCEPT ![c] = "deriveBits"]
    /\ dLocal' = [dLocal EXCEPT ![c].aesKey =
                    <<DeriveAesKey(dLocal[c].ikm[1], dLocal[c].salt[1])>>]
    /\ dInfoUse' = dInfoUse \cup {[info |-> AES_INFO, purpose |-> "AES-GCM"]}
    /\ UNCHANGED <<dCount, dLog>>

\* ecdsaScalar is set; up to: await importKey("pkcs8", ...)
DeriveBits(c) ==
    /\ dPc[c] = "deriveBits"
    /\ dPc' = [dPc EXCEPT ![c] = "importPkcs8"]
    /\ dLocal' = [dLocal EXCEPT ![c].ecdsaScalar =
                    <<DeriveEcdsaScalar(dLocal[c].ikm[1], dLocal[c].salt[1])>>]
    /\ dInfoUse' = dInfoUse \cup {[info |-> ECDSA_INFO, purpose |-> "ECDSA"]}
    /\ UNCHANGED <<dCount, dLog>>

\* ecdsaPrivateKey is set; up to: await exportKey("jwk", ...)
DerivePrivate(c) ==
    /\ dPc[c] = "importPkcs8"
    /\ dPc' = [dPc EXCEPT ![c] = "exportJwk"]
    /\ dLocal' = [dLocal EXCEPT ![c].ecdsaPrivateKey =
                    <<ImportPkcs8(PKCS8_P256_PREFIX, dLocal[c].ecdsaScalar[1])>>]
    /\ UNCHANGED <<dCount, dInfoUse, dLog>>

\* jwkPrivate is set; up to: await importKey("jwk", publicKeyJwk, ...)
DeriveExport(c) ==
    /\ dPc[c] = "exportJwk"
    /\ dPc' = [dPc EXCEPT ![c] = "importJwk"]
    /\ dLocal' = [dLocal EXCEPT ![c].jwkPrivate = <<ExportJwk(dLocal[c].ecdsaPrivateKey[1])>>]
    /\ UNCHANGED <<dCount, dInfoUse, dLog>>

\* the DerivedKeys object deriveKeys returns
DerivedKeys(loc) ==
    [aesKey |-> loc.aesKey[1],
     ecdsaKeyPair |->
        [privateKey |-> loc.ecdsaPrivateKey[1],
         publicKey |-> ImportPublicJwk(PublicJwk(loc.jwkPrivate[1])),
         publicKeyJwk |-> PublicJwk(loc.jwkPrivate[1])],
     ecdsaScalarHex |-> bytesToHex(loc.ecdsaScalar[1])]

\* ecdsaPublicKey is set and deriveKeys returns
DeriveReturn(c) ==
    /\ dPc[c] = "importJwk"
    /\ dPc' = [dPc EXCEPT ![c] = "done"]
    /\ dLocal' = [dLocal EXCEPT ![c].result = <<DerivedKeys(dLocal[c])>>]
    /\ dLog' = dLog \cup {[prfOutput |-> dLocal[c].prfOutput[1],
                           keys |-> DerivedKeys(dLocal[c])]}
    /\ UNCHANGED <<dCount, dInfoUse>>

\* the caller has taken the keys; the call's locals are gone
DeriveDrop(c) ==
    /\ dPc[c] = "done"
    /\ dPc' = [dPc EXCEPT ![c] = "idle"]
    /\ dLocal' = [dLocal EXCEPT ![c] = NoLocals]
    /\ UNCHANGED <<dCount, dInfoUse, dLog>>

Call == \E c \in Calls, s \in DeriveInputs : DeriveCall(c, s) /\ UNCHANGED otherThanDerive
Salt == \E c \in Calls : DeriveSalt(c) /\ UNCHANGED otherThanDerive
Ikm == \E c \in Calls : DeriveIkm(c) /\ UNCHANGED otherThanDerive
Aes == \E c \in Calls : DeriveAes(c) /\ UNCHANGED otherThanDerive
Bits == \E c \in Calls : DeriveBits(c) /\ UNCHANGED otherThanDerive
Private == \E c \in Calls : DerivePrivate(c) /\ UNCHANGED otherThanDerive
Export == \E c \in Calls : DeriveExport(c) /\ UNCHANGED otherThanDerive
Returned == \E c \in Calls : DeriveReturn(c) /\ UNCHANGED otherThanDerive
Drop == \E c \in Calls : DeriveDrop(c) /\ UNCHANGED otherThanDerive

NextDerive ==
    \/ Call \/ Salt \/ Ikm \/ Aes \/ Bits \/ Private \/ Export \/ Returned \/ Drop

---------------------------------------------------------------------------
(* Canonical JSON (src/src/lib/crypto.ts, canonicalJsonStringify)          *)
(* A JavaScript value is <<"null">>, <<"num", n>>, <<"str", units>>,       *)
(* <<"arr", elements>> or <<"obj", properties>>; the properties of an      *)
(* object are <<key, value>> pairs in the order the engine enumerates its  *)
(* own properties: array-index keys in ascending numeric order, then the   *)
(* other keys in the order they were created.                              *)

\* The code units of the punctuation and keywords of JSON text
Quote == <<34>>
Comma == <<44>>
Colon == <<58>>
OpenBracket == <<91>>
CloseBracket == <<93>>
OpenBrace == <<123>>
CloseBrace == <<125>>
NullText == <<110, 117, 108, 108>>

\* "__proto__"
ProtoKey == <<95, 95, 112, 114, 111, 116, 111, 95, 95>>

IsDigit(u) == u >= 48 /\ u <= 57

\* Number -> String of a non-negative integer
RECURSIVE Digits(_)
Digits(n) == IF n < 10 THEN <<48 + n>> ELSE Digits(n \div 10) \o <<48 + (n % 10)>>

\* String -> Number of a run of digits
RECURSIVE NumVal(_)
NumVal(units) ==
    IF units = <<>> THEN 0
    ELSE 10 * NumVal(SubSeq(units, 1, Len(units) - 1)) + (units[Len(units)] - 48)

\* A property key that is an array index: the canonical decimal text of an
\* integer below 2^32 - 1. Every such text of up to nine digits is one; the
\* keys of the inputs are shorter than ten digits.
IsArrayIndex(key) ==
    /\ Len(key) >= 1
    /\ Len(key) <= 9
    /\ \A i \in 1..Len(key) : IsDigit(key[i])
    /\ (Len(key) = 1 \/ key[1] # 48)

\* a < b for two strings compared by UTF-16 code units
CodeUnitLess(a, b) ==
    \E i \in 1..Len(b) :
        /\ \A j \in 1..(i - 1) : j <= Len(a) /\ a[j] = b[j]
        /\ (i > Len(a) \/ a[i] < b[i])

\* Array.prototype.sort() without a comparator, on distinct strings
RECURSIVE SortStrings(_)
SortStrings(strings) ==
    IF strings = {} THEN <<>>
    ELSE LET first == CHOOSE a \in strings : \A b \in strings \ {a} : CodeUnitLess(a, b)
         IN  <<first>> \o SortStrings(strings \ {first})

Range(seq) == {seq[i] : i \in 1..Len(seq)}

\* Object.keys(value)
ObjectKeys(props) == [i \in 1..Len(props) |-> props[i][1]]

HasOwn(props, key) == \E i \in 1..Len(props) : props[i][1] = key

\* value[key]
Get(props, key) == props[CHOOSE i \in 1..Len(props) : props[i][1] = key][2]

\* An own data property is created or rewritten; the enumeration order of
\* the object's keys follows (OrdinaryOwnPropertyKeys)
DefineOwn(props, key, value) ==
    IF HasOwn(props, key)
    THEN [i \in 1..Len(props) |-> IF props[i][1] = key THEN <<key, value>> ELSE props[i]]
    ELSE IF IsArrayIndex(key)
    THEN LET before == {i \in 1..Len(props) :
                          IsArrayIndex(props[i][1]) /\ NumVal(props[i][1]) < NumVal(key)}
             n == Cardinality(before)
         IN  SubSeq(props, 1, n) \o <<<<key, value>>>> \o SubSeq(props, n + 1, Len(props))
    ELSE Append(props, <<key, value>>)

\* sorted[k] = v on an ordinary object: "__proto__" goes to the setter of
\* Object.prototype and creates no own property
ObjSet(props, key, value) ==
    IF key = ProtoKey THEN props ELSE DefineOwn(props, key, value)

\* for (const k of keys) sorted[k] = value[k], starting from sorted
RECURSIVE CopyKeys(_, _, _)
CopyKeys(sorted, keys, props) ==
    IF keys = <<>> THEN sorted
    ELSE CopyKeys(ObjSet(sorted, Head(keys), Get(props, Head(keys))), Tail(keys), props)

Reverse(seq) == [i \in 1..Len(seq) |-> seq[Len(seq) + 1 - i]]

\* A replacer that copies the keys in the reverse of their current order
replacerReversesKeys(value) ==
    IF value[1] = "obj"
    THEN <<"obj", CopyKeys(<<>>, Reverse(ObjectKeys(value[2])), value[2])>>
    ELSE value

\* A replacer that returns every value as it is
replacerKeepsOrder(value) == value

\* The replacer function canonicalJsonStringify hands to JSON.stringify
replacer(value) ==
    IF value[1] = "obj"
    THEN <<"obj", CopyKeys(<<>>, SortStrings(Range(ObjectKeys(value[2]))), value[2])>>
    ELSE value

\* QuoteJSONString of a string that needs no escape
QuoteJSONString(units) == Quote \o units \o Quote

\* JSON.stringify(value, replacer) and JSON.stringify(value):
\* SerializeJSONProperty, SerializeJSONArray and SerializeJSONObject;
\* withReplacer tells whether the replacer was given
RECURSIVE SerializeJSONProperty(_, _), SerializeElements(_, _), SerializeMembers(_, _)
SerializeJSONProperty(raw, withReplacer) ==
    LET value == IF withReplacer THEN replacer(raw) ELSE raw
    IN  CASE value[1] = "null" -> NullText
          [] value[1] = "num" -> Digits(value[2])
          [] value[1] = "str" -> QuoteJSONString(value[2])
          [] value[1] = "arr" ->
                OpenBracket \o SerializeElements(value[2], withReplacer) \o CloseBracket
          [] value[1] = "obj" ->
                OpenBrace \o SerializeMembers(value[2], withReplacer) \o CloseBrace

SerializeElements(elements, withReplacer) ==
    IF elements = <<>> THEN <<>>
    ELSE SerializeJSONProperty(Head(elements), withReplacer)
         \o (IF Tail(elements) = <<>> THEN <<>>
             ELSE Comma \o SerializeElements(Tail(elements), withReplacer))

SerializeMembers(props, withReplacer) ==
    IF props = <<>> THEN <<>>
    ELSE QuoteJSONString(Head(props)[1]) \o Colon
         \o SerializeJSONProperty(Head(props)[2], withReplacer)
         \o (IF Tail(props) = <<>> THEN <<>>
             ELSE Comma \o SerializeMembers(Tail(props), withReplacer))

\* JSON.stringify(value)
JSONStringify(value) == SerializeJSONProperty(value, FALSE)

canonicalJsonStringify(obj) == SerializeJSONProperty(obj, TRUE)

\* The text of a JSON value read from position p: the value with the
\* members of every object in the order of the text, and the position after it
RECURSIVE ReadValue(_, _), ReadElements(_, _, _), ReadMembers(_, _, _)
NextQuote(text, p) == CHOOSE j \in (p + 1)..Len(text) :
                          text[j] = Quote[1] /\ \A i \in (p + 1)..(j - 1) : text[i] # Quote[1]

DigitsEnd(text, p) == CHOOSE j \in p..Len(text) :
                          /\ \A i \in p..j : IsDigit(text[i])
                          /\ (j = Len(text) \/ ~IsDigit(text[j + 1]))

ReadValue(text, p) ==
    CASE text[p] = NullText[1] ->
            [value |-> <<"null">>, next |-> p + Len(NullText)]
      [] IsDigit(text[p]) ->
            [value |-> <<"num", NumVal(SubSeq(text, p, DigitsEnd(text, p)))>>,
             next |-> DigitsEnd(text, p) + 1]
      [] text[p] = Quote[1] ->
            [value |-> <<"str", SubSeq(text, p + 1, NextQuote(text, p) - 1)>>,
             next |-> NextQuote(text, p) + 1]
      [] text[p] = OpenBracket[1] ->
            IF text[p + 1] = CloseBracket[1]
            THEN [value |-> <<"arr", <<>>>>, next |-> p + 2]
            ELSE ReadElements(text, p + 1, <<>>)
      [] text[p] = OpenBrace[1] ->
            IF text[p + 1] = CloseBrace[1]
            THEN [value |-> <<"obj", <<>>>>, next |-> p + 2]
            ELSE ReadMembers(text, p + 1, <<>>)

ReadElements(text, p, read) ==
    LET element == ReadValue(text, p)
        elements == Append(read, element.value)
    IN  IF text[element.next] = Comma[1]
        THEN ReadElements(text, element.next + 1, elements)
        ELSE [value |-> <<"arr", elements>>, next |-> element.next + 1]

ReadMembers(text, p, read) ==
    LET close == NextQuote(text, p)
        key == SubSeq(text, p + 1, close - 1)
        member == ReadValue(text, close + 2)
        members == Append(read, <<key, member.value>>)
    IN  IF text[member.next] = Comma[1]
        THEN ReadMembers(text, member.next + 1, members)
        ELSE [value |-> <<"obj", members>>, next |-> member.next + 1]

ReadJson(text) == ReadValue(text, 1).value

\* The JavaScript value of a text: JSON.parse creates the members of an
\* object as own data properties, in the order of the text
RECURSIVE Internalize(_), InternalizeMembers(_, _)
Internalize(tree) ==
    CASE tree[1] = "arr" -> <<"arr", [i \in 1..Len(tree[2]) |-> Internalize(tree[2][i])]>>
      [] tree[1] = "obj" -> <<"obj", InternalizeMembers(<<>>, tree[2])>>
      [] OTHER -> tree

InternalizeMembers(props, members) ==
    IF members = <<>> THEN props
    ELSE InternalizeMembers(DefineOwn(props, Head(members)[1], Internalize(Head(members)[2])),
                            Tail(members))

JSONParse(text) == Internalize(ReadJson(text))

\* Two values with the same keys and the same values at every level, the
\* elements of arrays compared in order
RECURSIVE SameRecord(_, _)
SameRecord(v, w) ==
    /\ v[1] = w[1]
    /\ CASE v[1] = "null" -> TRUE
         [] v[1] \in {"num", "str"} -> v[2] = w[2]
         [] v[1] = "arr" ->
                /\ Len(v[2]) = Len(w[2])
                /\ \A i \in 1..Len(v[2]) : SameRecord(v[2][i], w[2][i])
         [] v[1] = "obj" ->
                /\ Range(ObjectKeys(v[2])) = Range(ObjectKeys(w[2]))
                /\ \A key \in Range(ObjectKeys(v[2])) :
                      SameRecord(Get(v[2], key), Get(w[2], key))

\* Inputs of canonicalJsonStringify
KeyA == <<97>>
KeyB == <<98>>
Key10 == Digits(10)
Key2 == Digits(2)
Keys == {KeyB, KeyA, Key10, Key2}

\* Properties of one flat record
MaxProps == 2

Num(n) == <<"num", n>>
FlatValues == {Num(1), <<"str", <<120>>>>}

\* The object whose properties were created in the given order
RECURSIVE Built(_, _)
Built(props, insertions) ==
    IF insertions = <<>> THEN <<"obj", props>>
    ELSE Built(DefineOwn(props, Head(insertions)[1], Head(insertions)[2]), Tail(insertions))

Insertions(keys, values, n) ==
    UNION {{ins \in [1..m -> keys \X values] :
                \A i, j \in 1..m : i # j => ins[i][1] # ins[j][1]} : m \in 0..n}

FlatRecords ==
    {Built(<<>>, ins) : ins \in Insertions(Keys, {Num(1)}, MaxProps)}
    \cup {Built(<<>>, ins) : ins \in Insertions({KeyA, KeyB}, FlatValues, 2)}

Inner == {Built(<<>>, <<<<KeyB, Num(10)>>, <<KeyA, Num(1)>>>>),
          Built(<<>>, <<<<KeyA, Num(1)>>, <<KeyB, Num(10)>>>>)}

NestedValues ==
    Inner \cup {<<"arr", <<inner, <<"null">>>>>> : inner \in Inner}
          \cup {<<"arr", <<Num(2), Num(1)>>>>, <<"arr", <<Num(1), Num(2)>>>>}

NestedRecords ==
    {Built(<<>>, <<<<key, v>>>>) : key \in {KeyA, KeyB}, v \in NestedValues}
    \cup {Built(<<>>, <<<<KeyB, v>>, <<KeyA, Num(1)>>>>) : v \in NestedValues}
    \cup {Built(<<>>, <<<<KeyA, Num(1)>>, <<KeyB, v>>>>) : v \in NestedValues}

\* Records parsed from a text with a "__proto__" member
ProtoRecords ==
    {Built(<<>>, <<<<ProtoKey, Num(1)>>, <<KeyA, Num(2)>>>>),
     Built(<<>>, <<<<KeyA, Num(2)>>, <<ProtoKey, <<"obj", <<<<KeyB, Num(1)>>>>>>>>>>)}

Records == FlatRecords \cup NestedRecords \cup ProtoRecords

\* The two calls whose results are compared
Pair == {1, 2}

InitJson ==
    /\ jIn = [c \in Pair |-> <<>>]
    /\ jOut = [c \in Pair |-> <<>>]
    /\ jAgain = [c \in Pair |-> <<>>]

\* canonicalJsonStringify(obj)
JsonCall(c, obj) ==
    /\ jIn[c] = <<>>
    /\ jIn' = [jIn EXCEPT ![c] = <<obj>>]
    /\ jOut' = [jOut EXCEPT ![c] = <<canonicalJsonStringify(obj)>>]
    /\ UNCHANGED jAgain

\* canonicalJsonStringify(JSON.parse(text)) of a text canonicalJsonStringify
\* returned
JsonReparse(c) ==
    /\ jOut[c] # <<>>
    /\ jAgain[c] = <<>>
    /\ jAgain' = [jAgain EXCEPT ![c] = <<canonicalJsonStringify(JSONParse(jOut[c][1]))>>]
    /\ UNCHANGED <<jIn, jOut>>

Canonicalize == \E c \in Pair, obj \in Records : JsonCall(c, obj) /\ UNCHANGED otherThanJson
Recanonicalize == \E c \in Pair : JsonReparse(c) /\ UNCHANGED otherThanJson

NextJson == Canonicalize \/ Recanonicalize

---------------------------------------------------------------------------
(* base64url, the JWK thumbprint (src/src/lib/crypto.ts) and the payment   *)
(* store (src/src/lib/fakeBackend.ts)                                      *)

\* The letter btoa writes for a 6-bit digit, and the digit of a letter
B64Char(digit) ==
    CASE digit < 26 -> 65 + digit
      [] digit >= 26 /\ digit < 52 -> 97 + (digit - 26)
      [] digit >= 52 /\ digit < 62 -> 48 + (digit - 52)
      [] digit = 62 -> 43
      [] digit = 63 -> 47

IsB64Char(u) ==
    \/ (u >= 65 /\ u <= 90) \/ (u >= 97 /\ u <= 122) \/ (u >= 48 /\ u <= 57)
    \/ u = 43 \/ u = 47

B64Digit(u) ==
    CASE u >= 65 /\ u <= 90 -> u - 65
      [] u >= 97 /\ u <= 122 -> u - 97 + 26
      [] u >= 48 /\ u <= 57 -> u - 48 + 52
      [] u = 43 -> 62
      [] u = 47 -> 63

\* btoa(String.fromCharCode(...bytes))
RECURSIVE Btoa(_)
Btoa(bytes) ==
    CASE Len(bytes) = 0 -> <<>>
      [] Len(bytes) = 1 ->
            <<B64Char(bytes[1] \div 4), B64Char((bytes[1] % 4) * 16), 61, 61>>
      [] Len(bytes) = 2 ->
            <<B64Char(bytes[1] \div 4),
              B64Char((bytes[1] % 4) * 16 + bytes[2] \div 16),
              B64Char((bytes[2] % 16) * 4), 61>>
      [] OTHER ->
            <<B64Char(bytes[1] \div 4),
              B64Char((bytes[1] % 4) * 16 + bytes[2] \div 16),
              B64Char((bytes[2] % 16) * 4 + bytes[3] \div 64),
              B64Char(bytes[3] % 64)>> \o Btoa(SubSeq(bytes, 4, Len(bytes)))

\* str.replace(/from/g, to) for a one-unit pattern
ReplaceAll(text, from, to) == [i \in 1..Len(text) |-> IF text[i] = from THEN to ELSE text[i]]

\* str.replace(/=+$/, "")
RECURSIVE StripPadding(_)
StripPadding(text) ==
    IF text # <<>> /\ text[Len(text)] = 61
    THEN StripPadding(SubSeq(text, 1, Len(text) - 1))
    ELSE text

base64urlEncode(bytes) == StripPadding(ReplaceAll(ReplaceAll(Btoa(bytes), 43, 45), 47, 95))

\* atob: up to two "=" are taken off a text of 4n units; what is left must
\* be letters of base64 and not 4n + 1 of them
AtobData(padded) ==
    IF Len(padded) % 4 = 0 /\ Len(padded) >= 2 /\ padded[Len(padded)] = 61
    THEN IF padded[Len(padded) - 1] = 61
         THEN SubSeq(padded, 1, Len(padded) - 2)
         ELSE SubSeq(padded, 1, Len(padded) - 1)
    ELSE padded

LettersThrow(letters) ==
    \/ Len(letters) % 4 = 1
    \/ \E i \in 1..Len(letters) : ~IsB64Char(letters[i])

AtobThrows(padded) == LettersThrow(AtobData(padded))

DigitsOf(letters) == [i \in 1..Len(letters) |-> B64Digit(letters[i])]

Atob(padded) == Base64Decode(DigitsOf(AtobData(padded)))

\* A decoder that leaves the "-" and "_" of base64url as they are
PaddedWithoutReplace(str) == str \o [i \in 1..((4 - (Len(str) % 4)) % 4) |-> 61]

\* b64 + "=".repeat(pad) of base64urlDecode
Padded(str) ==
    LET b64 == ReplaceAll(ReplaceAll(str, 45, 43), 95, 47)
        pad == (4 - (Len(b64) % 4)) % 4
    IN  b64 \o [i \in 1..pad |-> 61]

base64urlDecodeThrows(str) == AtobThrows(Padded(str))

base64urlDecode(str) == Atob(Padded(str))

\* Member names and values of a JWK: "kty", "crv", "x", "y", "d", "alg";
\* "EC", "P-256", "ES256"
KtyKey == <<107, 116, 121>>
CrvKey == <<99, 114, 118>>
XKey == <<120>>
YKey == <<121>>
DKey == <<100>>
AlgKey == <<97, 108, 103>>
EcText == <<69, 67>>
P256Text == <<80, 45, 50, 53, 54>>
Es256Text == <<69, 83, 50, 53, 54>>

Str(units) == <<"str", units>>

\* String(undefined)
UndefinedText == <<117, 110, 100, 101, 102, 105, 110, 101, 100>>

\* ${JSON.stringify(jwk.member)} in a template literal
MemberText(jwk, key) ==
    IF HasOwn(jwk[2], key) THEN JSONStringify(Get(jwk[2], key)) ELSE UndefinedText

\* The bytes of a SHA-256 digest stand for what was hashed: the bytes of
\* the hashed text, so that two digests are equal exactly when two texts are
DigestBytes(digest) == digest[2][2]

\* The text jwkThumbprint hashes: {"crv":...,"kty":...,"x":...,"y":...}
ThumbprintInput(jwk) ==
    <<123, 34, 99, 114, 118, 34, 58>> \o MemberText(jwk, CrvKey)
    \o <<44, 34, 107, 116, 121, 34, 58>> \o MemberText(jwk, KtyKey)
    \o <<44, 34, 120, 34, 58>> \o MemberText(jwk, XKey)
    \o <<44, 34, 121, 34, 58>> \o MemberText(jwk, YKey)
    \o <<125>>

\* A thumbprint computed over the whole JWK as it is
jwkThumbprintOfAllMembers(jwk) ==
    base64urlEncode(DigestBytes(Sha256(Utf8(JSONStringify(jwk)))))

jwkThumbprint(jwk) == base64urlEncode(DigestBytes(Sha256(Utf8(ThumbprintInput(jwk)))))

\* "dosipas:"
STORAGE_PREFIX == <<100, 111, 115, 105, 112, 97, 115, 58>>

\* A storage key that leaves the thumbprint out
StorageKeyShared(thumbprint) == STORAGE_PREFIX

\* STORAGE_PREFIX + thumbprint
StorageKey(thumbprint) == STORAGE_PREFIX \o thumbprint

\* "paymentRef", "paymentDate", "ecdsaPublicKey", "thumbprint"
PaymentRefKey == <<112, 97, 121, 109, 101, 110, 116, 82, 101, 102>>
PaymentDateKey == <<112, 97, 121, 109, 101, 110, 116, 68, 97, 116, 101>>
EcdsaPublicKeyKey == <<101, 99, 100, 115, 97, 80, 117, 98, 108, 105, 99, 75, 101, 121>>
ThumbprintKey == <<116, 104, 117, 109, 98, 112, 114, 105, 110, 116>>

\* localStorage is a set of <<key, value>> pairs with distinct keys
HasItem(storage, key) == \E item \in storage : item[1] = key
GetItem(storage, key) == (CHOOSE item \in storage : item[1] = key)[2]
RemoveItem(storage, key) == {item \in storage : item[1] # key}
SetItem(storage, key, value) == RemoveItem(storage, key) \cup {<<key, value>>}

\* { ...data, thumbprint }
PaymentRecord(data, thumbprint) ==
    <<"obj", DefineOwn(data[2], ThumbprintKey, Str(thumbprint))>>

\* localStorage after storePayment(data)
StoredBy(storage, data) ==
    LET thumbprint == jwkThumbprint(Get(data[2], EcdsaPublicKeyKey))
    IN  SetItem(storage, StorageKey(thumbprint), JSONStringify(PaymentRecord(data, thumbprint)))

\* lookupByPublicKey(ecdsaPublicKey)
lookupByPublicKey(storage, ecdsaPublicKey) ==
    LET key == StorageKey(jwkThumbprint(ecdsaPublicKey))
    IN  IF ~HasItem(storage, key) \/ GetItem(storage, key) = <<>>
        THEN <<"null">>
        ELSE JSONParse(GetItem(storage, key))

StartsWith(text, prefix) ==
    Len(text) >= Len(prefix) /\ SubSeq(text, 1, Len(prefix)) = prefix

\* localStorage after deleteRecord(thumbprint)
DeletedBy(storage, thumbprint) == RemoveItem(storage, StorageKey(thumbprint))

\* localStorage after localStorage.clear()
ClearedEverything(storage) == {}

\* localStorage after clearAllRecords()
Cleared(storage) == {item \in storage : ~StartsWith(item[1], STORAGE_PREFIX)}

\* deriveKeys(prfOutput), the awaits of one call taken together
deriveKeys(prfOutput) ==
    LET salt == getHkdfSalt
        ikm == ImportHkdf(prfOutput)
        ecdsaScalar == DeriveEcdsaScalar(ikm, salt)
        ecdsaPrivateKey == ImportPkcs8(PKCS8_P256_PREFIX, ecdsaScalar)
    IN  DerivedKeys([NoLocals EXCEPT
                        !.prfOutput = <<prfOutput>>,
                        !.salt = <<salt>>,
                        !.ikm = <<ikm>>,
                        !.aesKey = <<DeriveAesKey(ikm, salt)>>,
                        !.ecdsaScalar = <<ecdsaScalar>>,
                        !.ecdsaPrivateKey = <<ecdsaPrivateKey>>,
                        !.jwkPrivate = <<ExportJwk(ecdsaPrivateKey)>>])

\* The base64url text of a coordinate or of d in a JWK. The point of a
\* scalar is not computed: the text is a name of the scalar's key material
\* (its first byte and its length), led by the letter of the member.
CoordinateText(term) ==
    (CASE term[1] = "x" -> <<88>> [] term[1] = "y" -> <<89>> [] term[1] = "b64u" -> <<68>>)
    \o Digits(term[2].ikm[1]) \o <<45>> \o Digits(Len(term[2].ikm))

NameText(name) == CASE name = "EC" -> EcText [] name = "P-256" -> P256Text

HasAllFour(jwk) == \A key \in {CrvKey, KtyKey, XKey, YKey} : HasOwn(jwk[2], key)

\* The JavaScript object of a public JWK: { kty, crv, x, y }
JwkObject(jwk) ==
    <<"obj", <<<<KtyKey, Str(NameText(jwk.kty))>>, <<CrvKey, Str(NameText(jwk.crv))>>,
               <<XKey, Str(CoordinateText(jwk.x))>>, <<YKey, Str(CoordinateText(jwk.y))>>>>>>

\* The same key as a JWK with other members and another member order
\* (the private JWK exportKey returns has d; alg is optional)
Reordered(jwk) ==
    Built(<<>>, <<<<YKey, Get(jwk[2], YKey)>>, <<AlgKey, Str(Es256Text)>>,
                  <<XKey, Get(jwk[2], XKey)>>, <<CrvKey, Get(jwk[2], CrvKey)>>,
                  <<DKey, Str(<<68>>)>>, <<KtyKey, Get(jwk[2], KtyKey)>>>>)

\* The secrets whose keys pay and look up
StoreSecrets == {Fill(0, PrfLen), Fill(1, PrfLen)}

DerivedJwks == {JwkObject(deriveKeys(s).ecdsaKeyPair.publicKeyJwk) : s \in StoreSecrets}

\* A JWK with the x of one key and the y of another, and a JWK without y
MixedJwks ==
    {<<"obj", <<<<KtyKey, Str(EcText)>>, <<CrvKey, Str(P256Text)>>,
                <<XKey, Get(j[2], XKey)>>, <<YKey, Get(k[2], YKey)>>>>>> :
        j \in {JwkObject(deriveKeys(Fill(0, PrfLen)).ecdsaKeyPair.publicKeyJwk)},
        k \in {JwkObject(deriveKeys(Fill(1, PrfLen)).ecdsaKeyPair.publicKeyJwk)}}

PartialJwks == {<<"obj", SubSeq(j[2], 1, 3)>> : j \in MixedJwks}

Jwks == DerivedJwks \cup {Reordered(j) : j \in DerivedJwks} \cup MixedJwks \cup PartialJwks

\* Payments made in one run
MaxPayments == 2

\* `PAY-${crypto.randomUUID()}` and new Date().toISOString() of the n-th
\* payment: "PAY-" and a fresh identifier, "2026-11-0" and the day
PaymentRef(n) == <<80, 65, 89, 45>> \o Digits(n)
PaymentDate(n) == <<50, 48, 50, 54, 45, 49, 49, 45, 48>> \o Digits(n)

\* { paymentRef, paymentDate, ecdsaPublicKey }
PaymentData(paymentRef, paymentDate, ecdsaPublicKey) ==
    Built(<<>>, <<<<PaymentRefKey, Str(paymentRef)>>, <<PaymentDateKey, Str(paymentDate)>>,
                  <<EcdsaPublicKeyKey, ecdsaPublicKey>>>>)

\* jwk.member, undefined when the member is absent
Member(jwk, key) == IF HasOwn(jwk[2], key) THEN Get(jwk[2], key) ELSE <<"undefined">>

\* What makes two public keys logically equal
Identity(jwk) == <<Member(jwk, CrvKey), Member(jwk, KtyKey), Member(jwk, XKey), Member(jwk, YKey)>>

InitStore ==
    /\ localStorage = {}
    /\ sLive = {}
    /\ sFound = <<>>
    /\ sCount = 0

\* storePayment(data)
StorePayment(data) ==
    LET jwk == Get(data[2], EcdsaPublicKeyKey)
    IN  /\ sCount < MaxPayments
        /\ sCount' = sCount + 1
        /\ localStorage' = StoredBy(localStorage, data)
        /\ sLive' = {e \in sLive : e.identity # Identity(jwk)}
                      \cup {[identity |-> Identity(jwk),
                             thumbprint |-> jwkThumbprint(jwk),
                             paymentRef |-> Get(data[2], PaymentRefKey)[2],
                             paymentDate |-> Get(data[2], PaymentDateKey)[2]]}
        /\ sFound' = <<>>

\* lookupByPublicKey(ecdsaPublicKey)
Lookup(ecdsaPublicKey) ==
    /\ sFound' = <<[key |-> ecdsaPublicKey,
                    hashed |-> ThumbprintInput(ecdsaPublicKey),
                    thumbprint |-> jwkThumbprint(ecdsaPublicKey),
                    result |-> lookupByPublicKey(localStorage, ecdsaPublicKey)]>>
    /\ UNCHANGED <<localStorage, sLive, sCount>>

\* deleteRecord(thumbprint), for a record listAllRecords showed
DeleteRecord(thumbprint) ==
    /\ localStorage' = DeletedBy(localStorage, thumbprint)
    /\ sLive' = {e \in sLive : e.thumbprint # thumbprint}
    /\ sFound' = <<>>
    /\ UNCHANGED sCount

\* clearAllRecords()
ClearAllRecords ==
    /\ localStorage # {}
    /\ localStorage' = Cleared(localStorage)
    /\ sLive' = {}
    /\ sFound' = <<>>
    /\ UNCHANGED sCount

\* Items of the origin that are not payment records: "theme" -> "dark", and
\* "dosipas" -> "1", whose key is the prefix without its colon
OtherItems ==
    {<<<<116, 104, 101, 109, 101>>, <<100, 97, 114, 107>>>>,
     <<<<100, 111, 115, 105, 112, 97, 115>>, <<49>>>>}

\* Another script of the origin writes its items to localStorage
OtherScriptWrites ==
    /\ ~(OtherItems \subseteq localStorage)
    /\ localStorage' = localStorage \cup OtherItems
    /\ UNCHANGED <<sLive, sFound, sCount>>

\* listAllRecords()
listAllRecords(storage) ==
    {JSONParse(item[2]) : item \in {i \in storage : StartsWith(i[1], STORAGE_PREFIX)}}

Store ==
    /\ \E jwk \in Jwks :
          StorePayment(PaymentData(PaymentRef(sCount + 1), PaymentDate(sCount + 1), jwk))
    /\ UNCHANGED otherThanStore
Find == (\E jwk \in Jwks : Lookup(jwk)) /\ UNCHANGED otherThanStore
Delete ==
    /\ \E record \in listAllRecords(localStorage) : DeleteRecord(Get(record[2], ThumbprintKey)[2])
    /\ UNCHANGED otherThanStore
Clear == ClearAllRecords /\ UNCHANGED otherThanStore
OtherWrite == OtherScriptWrites /\ UNCHANGED otherThanStore

NextStore == Store \/ Find \/ Delete \/ Clear \/ OtherWrite

---------------------------------------------------------------------------
(* Signing and verifying (src/src/lib/crypto.ts, signPayload and           *)
(* verifySignature). ECDSA is not computed: crypto.subtle.sign returns 64  *)
(* bytes no earlier call returned for other data or another key, and       *)
(* crypto.subtle.verify accepts exactly the signatures sign returned for   *)
(* the same data under the private key of the public key.                  *)

\* The text signPayload returns for the signature crypto.subtle.sign made
signPayload(p1363Sig) == base64urlEncode(p1363ToDer(p1363Sig))

\* crypto.subtle.verify(ECDSA, publicKey, signature, data)
SubtleVerify(issued, publicKey, signature, data) ==
    \E made \in issued :
        /\ made.signature = signature
        /\ made.data = data
        /\ ExportJwk(made.privateKey).x = publicKey.x
        /\ ExportJwk(made.privateKey).y = publicKey.y

verifySignatureThrows(signatureB64u) ==
    \/ base64urlDecodeThrows(signatureB64u)
    \/ derToP1363Throws(base64urlDecode(signatureB64u))

\* The 64 bytes verifySignature hands to crypto.subtle.verify
VerifiedBytes(signatureB64u) == derToP1363(base64urlDecode(signatureB64u))

verifySignature(issued, publicKey, payload, signatureB64u) ==
    SubtleVerify(issued, publicKey, VerifiedBytes(signatureB64u), Utf8(payload))

\* The key pairs of deriveKeys
KeyPairs == {deriveKeys(s).ecdsaKeyPair : s \in StoreSecrets}

\* new Date().toISOString() of the m-th signature of a day
SignatureDate(n, m) == PaymentDate(n) \o <<84>> \o Digits(m)

\* "signatureDate", "signature"
SignatureDateKey == <<115, 105, 103, 110, 97, 116, 117, 114, 101, 68, 97, 116, 101>>
SignatureKey == <<115, 105, 103, 110, 97, 116, 117, 114, 101>>

\* payloadObj of TicketScreen and of VerifierScreen
PayloadObj(ecdsaPublicKey, paymentDate, paymentRef, signatureDate) ==
    Built(<<>>, <<<<EcdsaPublicKeyKey, ecdsaPublicKey>>, <<PaymentDateKey, paymentDate>>,
                  <<PaymentRefKey, paymentRef>>, <<SignatureDateKey, signatureDate>>>>)

\* Payload strings that are signed and verified
Payloads ==
    {canonicalJsonStringify(
        PayloadObj(JwkObject(deriveKeys(Fill(0, PrfLen)).ecdsaKeyPair.publicKeyJwk),
                   Str(PaymentDate(1)), Str(PaymentRef(1)), Str(SignatureDate(1, m)))) :
        m \in 1..2}

\* Signatures crypto.subtle.sign returns: r with and without leading zero
\* bytes, s with the top bit set; their texts hold "-" and "_"
EcdsaSignatures ==
    {Half(z, 251, 255) \o Half(0, 128, 255) : z \in {0, 1, HalfLen - 1}}

\* Signature texts that signPayload did not make: no text, a text of 4n + 1
\* letters, a text with a letter outside base64url, and the texts of byte
\* strings that are not DER
ForeignTexts ==
    {<<>>, <<65>>, <<65, 33, 65, 65>>, base64urlEncode(<<48, 0>>), base64urlEncode(Fill(255, 3))}

\* signPayload calls made in one run
MaxSignatures == 2

InitSign ==
    /\ kIssued = {}
    /\ kVerified = <<>>

\* signPayload(privateKey, payload)
SignPayload(privateKey, payload, p1363Sig) ==
    /\ Cardinality(kIssued) < MaxSignatures
    /\ \A made \in kIssued :
          made.signature = p1363Sig => (made.privateKey = privateKey /\ made.data = Utf8(payload))
    /\ kIssued' = kIssued \cup {[privateKey |-> privateKey, payload |-> payload,
                                 data |-> Utf8(payload), signature |-> p1363Sig,
                                 returned |-> signPayload(p1363Sig)]}
    /\ kVerified' = <<>>

\* verifySignature(publicKey, payload, signatureB64u)
VerifySignature(publicKey, payload, signatureB64u) ==
    /\ kVerified' = <<[publicKey |-> publicKey, payload |-> payload,
                       signatureB64u |-> signatureB64u,
                       thrown |-> verifySignatureThrows(signatureB64u),
                       valid |-> IF verifySignatureThrows(signatureB64u) THEN FALSE
                                 ELSE verifySignature(kIssued, publicKey, payload,
                                                      signatureB64u)]>>
    /\ UNCHANGED kIssued

Sign ==
    /\ \E pair \in KeyPairs, payload \in Payloads, sig \in EcdsaSignatures :
          SignPayload(pair.privateKey, payload, sig)
    /\ UNCHANGED otherThanSign
VerifyIssued ==
    /\ \E pair \in KeyPairs, payload \in Payloads, made \in kIssued :
          VerifySignature(pair.publicKey, payload, made.returned)
    /\ UNCHANGED otherThanSign
VerifyForeign ==
    /\ \E made \in kIssued, text \in ForeignTexts :
          VerifySignature(ImportPublicJwk(PublicJwk(ExportJwk(made.privateKey))),
                          made.payload, text)
    /\ UNCHANGED otherThanSign

NextSign == Sign \/ VerifyIssued \/ VerifyForeign

---------------------------------------------------------------------------
(* The ticket application (App, AuthScreen, PaymentScreen, TicketScreen    *)
(* and BackendExplorer)                                                    *)

\* The PRF outputs the authenticator returns
AppSecrets == StoreSecrets

\* The tabs of App
Tabs == {"app", "verifier", "backend"}

\* ecdsaPublicKeyJwk given to PaymentScreen, as a private JWK
PaymentScreenKeyPrivate(keys) ==
    <<"obj", JwkObject(keys.ecdsaKeyPair.publicKeyJwk)[2]
               \o <<<<DKey, Str(CoordinateText(ExportJwk(keys.ecdsaKeyPair.privateKey).d))>>>>>>

\* ecdsaPublicKeyJwk={derivedKeysState.ecdsaKeyPair.publicKeyJwk}
PaymentScreenKey(keys) == JwkObject(keys.ecdsaKeyPair.publicKeyJwk)

\* handleAuthenticated calls in flight at once
AuthCalls == {1, 2}

\* A call is known by the await it is suspended at and by its params
OneCall(call) == SetToBag({call})

InitApp ==
    /\ appState = "auth"
    /\ activeTab = "app"
    /\ appError = ""
    /\ prfOutputHex = <<>>
    /\ derivedKeysState = <<>>
    /\ paymentRecord = <<>>
    /\ auth = EmptyBag
    /\ step = "form"
    /\ pay = <<>>
    /\ signedPayload = <<>>
    /\ sigCount = 0
    /\ ticketError = ""
    /\ interval = <<>>
    /\ signing = {}
    /\ jsonInput = <<>>
    /\ result = <<>>
    /\ verifierError = ""
    /\ verifying = FALSE
    /\ now = <<>>

verifierVars == <<jsonInput, result, verifierError, verifying, now>>

ticketVars == <<signedPayload, sigCount, ticketError, interval, signing>>

\* What App renders in the tab "app"
AuthShown(tab, state) == tab = "app" /\ state = "auth"
PaymentShown(tab, state, keys) == tab = "app" /\ state = "payment" /\ keys # <<>>
TicketShown(tab, state, keys, record) ==
    tab = "app" /\ state = "ticket" /\ keys # <<>> /\ record # <<>>

\* The props of TicketScreen, the dependencies of its effect
TicketProps(keys, record) ==
    [record |-> record[1],
     ecdsaPrivateKey |-> keys[1].ecdsaKeyPair.privateKey,
     ecdsaPublicKeyJwk |-> JwkObject(keys[1].ecdsaKeyPair.publicKeyJwk)]

\* cancelled = true, seen by every call of the effect that is in flight
Cancelled(calls) == {[call EXCEPT !.cancelled = TRUE] : call \in calls}

\* React commits the render of the state a handler has set: PaymentScreen
\* and TicketScreen lose their state when they are no longer rendered, and
\* the cleanup of the effect of TicketScreen runs when it is unmounted or
\* rendered with other props. The keys of a setDerivedKeysState and the
\* record of a setPaymentRecord are new objects: created tells that the
\* handler has set one, which makes other props of equal ones.
Commit(created) ==
    LET payment == PaymentShown(activeTab', appState', derivedKeysState')
        ticket == TicketShown(activeTab', appState', derivedKeysState', paymentRecord')
    IN  /\ step' = IF payment THEN step ELSE "form"
        /\ IF interval # <<>>
              /\ (\/ ~ticket
                  \/ created
                  \/ TicketProps(derivedKeysState', paymentRecord') # interval[1])
           THEN /\ interval' = <<>>
                /\ signing' = Cancelled(signing)
           ELSE UNCHANGED <<interval, signing>>
        /\ IF ticket
           THEN UNCHANGED <<signedPayload, sigCount, ticketError>>
           ELSE /\ signedPayload' = <<>>
                /\ sigCount' = 0
                /\ ticketError' = ""

\* An error that is shown nowhere
HandleErrorKeepsState(msg) ==
    /\ appError' = msg
    /\ UNCHANGED appState

\* handleError(msg)
HandleError(msg) ==
    /\ appError' = msg
    /\ appState' = "error"

\* handleAuthenticated(params) up to await deriveKeys; handleRegister and
\* handleSignIn call it from the AuthScreen that is rendered, and their
\* finally has set loading to false when it is suspended
HandleAuthenticated(prfOutput) ==
    /\ AuthShown(activeTab, appState)
    /\ BagCardinality(auth) < Cardinality(AuthCalls)
    /\ appError' = ""
    /\ prfOutputHex' = <<bytesToHex(prfOutput)>>
    /\ auth' = auth (+) OneCall([pc |-> "deriveKeys", prfOutput |-> prfOutput])
    /\ UNCHANGED <<appState, activeTab, derivedKeysState, paymentRecord, step, pay,
                   ticketVars, verifierVars, storeVars, signVars>>

\* deriveKeys returns to handleAuthenticated, or crypto.subtle rejects
DeriveKeysReturns(call, outcome) ==
    /\ call.pc = "deriveKeys"
    /\ IF outcome = "rejected"
       THEN /\ HandleError("OperationError")
            /\ auth' = auth (-) OneCall(call)
            /\ UNCHANGED derivedKeysState
       ELSE /\ derivedKeysState' = <<deriveKeys(call.prfOutput)>>
            /\ auth' = (auth (-) OneCall(call))
                          (+) OneCall([call EXCEPT !.pc = "lookupByPublicKey"])
            /\ UNCHANGED <<appState, appError>>
    /\ UNCHANGED <<activeTab, prfOutputHex, paymentRecord, pay, verifierVars, storeVars,
                   signVars>>
    /\ Commit(outcome # "rejected")

\* lookupByPublicKey returns to handleAuthenticated
LookupReturns(call) ==
    /\ call.pc = "lookupByPublicKey"
    /\ LET keys == deriveKeys(call.prfOutput)
           record == lookupByPublicKey(localStorage,
                                       JwkObject(keys.ecdsaKeyPair.publicKeyJwk))
       IN  IF record # <<"null">>
           THEN /\ paymentRecord' = <<record>>
                /\ appState' = "ticket"
           ELSE /\ appState' = "payment"
                /\ UNCHANGED paymentRecord
    /\ auth' = auth (-) OneCall(call)
    /\ UNCHANGED <<activeTab, appError, prfOutputHex, derivedKeysState, pay, verifierVars,
                   storeVars, signVars>>
    /\ Commit(appState' = "ticket")

\* handleRegister or handleSignIn fails: onError(message)
AuthFails ==
    /\ AuthShown(activeTab, appState)
    /\ HandleError("Authentication cancelled.")
    /\ UNCHANGED <<activeTab, prfOutputHex, derivedKeysState, paymentRecord, auth, pay,
                   verifierVars, storeVars, signVars>>
    /\ Commit(FALSE)

\* Payments made on the payment screen in one run
MaxPaid == 1

\* handlePay of PaymentScreen up to its first await; the call keeps the
\* ecdsaPublicKeyJwk and the onPaymentComplete of the render it was made in,
\* and so the derivedKeysState of that render
HandlePay ==
    /\ PaymentShown(activeTab, appState, derivedKeysState)
    /\ sCount < MaxPaid
    /\ step = "form"
    /\ pay = <<>>
    /\ step' = "processing"
    /\ pay' = <<[pc |-> "storePayment", derivedKeysState |-> derivedKeysState[1]]>>
    /\ UNCHANGED <<appState, activeTab, appError, prfOutputHex, derivedKeysState,
                   paymentRecord, auth, ticketVars, verifierVars, storeVars, signVars>>

\* handlePay after the 1200 ms: storePayment and setStep("done"), which sets
\* nothing when the PaymentScreen of the call is unmounted
PaymentStored ==
    /\ pay # <<>>
    /\ pay[1].pc = "storePayment"
    /\ StorePayment(PaymentData(PaymentRef(sCount + 1), PaymentDate(sCount + 1),
                                PaymentScreenKey(pay[1].derivedKeysState)))
    /\ step' = IF step = "processing" THEN "done" ELSE step
    /\ pay' = <<[pay[1] EXCEPT !.pc = "onPaymentComplete"]>>
    /\ UNCHANGED <<appState, activeTab, appError, prfOutputHex, derivedKeysState,
                   paymentRecord, auth, ticketVars, verifierVars, signVars>>

\* onPaymentComplete() after the 500 ms: handlePaymentComplete, with the
\* derivedKeysState of its render
HandlePaymentComplete ==
    /\ pay # <<>>
    /\ pay[1].pc = "onPaymentComplete"
    /\ LET record == lookupByPublicKey(localStorage,
                        JwkObject(pay[1].derivedKeysState.ecdsaKeyPair.publicKeyJwk))
       IN  IF record = <<"null">>
           THEN /\ HandleError("Payment record not found after storage.")
                /\ UNCHANGED paymentRecord
           ELSE /\ paymentRecord' = <<record>>
                /\ appState' = "ticket"
                /\ UNCHANGED appError
    /\ pay' = <<>>
    /\ UNCHANGED <<activeTab, prfOutputHex, derivedKeysState, auth, verifierVars, storeVars,
                   signVars>>
    /\ Commit(appState' = "ticket")

\* The 64 bytes crypto.subtle.sign returns for the n-th ticket: no two
\* tickets get the same bytes
TicketSignature(n) == Half(n, 251, 255) \o Half(0, 128, 255)

\* Tickets signed by the ticket screen in one run
MaxTickets == 2

\* The signAndRender calls made so far
Started == Cardinality(kIssued) + Cardinality({call \in signing : call.pc = "signPayload"})

\* payloadObj of a signAndRender call
CallPayload(call) ==
    PayloadObj(call.props.ecdsaPublicKeyJwk,
               Get(call.props.record[2], PaymentDateKey),
               Get(call.props.record[2], PaymentRefKey),
               Str(SignatureDate(1, call.n)))

\* signAndRender up to await signPayload, with the props and the cancelled
\* of its effect
SignAndRender(props) ==
    /\ Started < MaxTickets
    /\ signing' = signing \cup {[n |-> Started + 1, props |-> props, pc |-> "signPayload",
                                 cancelled |-> FALSE]}

\* The effect of TicketScreen runs after it is mounted or rendered with other
\* props: signAndRender() and setInterval(signAndRender, 4000)
EffectRuns ==
    /\ TicketShown(activeTab, appState, derivedKeysState, paymentRecord)
    /\ interval = <<>>
    /\ SignAndRender(TicketProps(derivedKeysState, paymentRecord))
    /\ interval' = <<TicketProps(derivedKeysState, paymentRecord)>>
    /\ UNCHANGED <<appState, activeTab, appError, prfOutputHex, derivedKeysState,
                   paymentRecord, auth, step, pay, signedPayload, sigCount, ticketError,
                   verifierVars, storeVars, signVars>>

\* The timer of the effect fires after 4000 ms
TimerFires ==
    /\ interval # <<>>
    /\ SignAndRender(interval[1])
    /\ UNCHANGED <<appState, activeTab, appError, prfOutputHex, derivedKeysState,
                   paymentRecord, auth, step, pay, signedPayload, sigCount, ticketError,
                   interval, verifierVars, storeVars, signVars>>

\* A call that sets the state whether cancelled or not
ReturnsIgnoringCancelled(call) == FALSE

\* if (cancelled) return
ReturnsIfCancelled(call) == call.cancelled

\* signPayload returns to signAndRender, which runs on to await renderAztecCode
SignReturns(call) ==
    /\ call.pc = "signPayload"
    /\ SignPayload(call.props.ecdsaPrivateKey, canonicalJsonStringify(CallPayload(call)),
                   TicketSignature(call.n))
    /\ IF ReturnsIfCancelled(call)
       THEN /\ signing' = signing \ {call}
            /\ UNCHANGED <<signedPayload, sigCount>>
       ELSE /\ signedPayload' =
                 <<<<"obj", DefineOwn(CallPayload(call)[2], SignatureKey,
                                      Str(signPayload(TicketSignature(call.n))))>>>>
            /\ sigCount' = sigCount + 1
            /\ signing' = (signing \ {call}) \cup {[call EXCEPT !.pc = "renderAztecCode"]}
    /\ UNCHANGED <<appState, activeTab, appError, prfOutputHex, derivedKeysState,
                   paymentRecord, auth, step, pay, ticketError, interval, verifierVars,
                   storeVars>>

\* renderAztecCode returns to signAndRender, or throws
RenderReturns(call, outcome) ==
    /\ call.pc = "renderAztecCode"
    /\ signing' = signing \ {call}
    /\ IF outcome = "rejected" /\ ~call.cancelled
       THEN ticketError' = "renderAztecCode failed"
       ELSE UNCHANGED ticketError
    /\ UNCHANGED <<appState, activeTab, appError, prfOutputHex, derivedKeysState,
                   paymentRecord, auth, step, pay, signedPayload, sigCount, interval,
                   verifierVars, storeVars, signVars>>

\* handleReset
HandleReset ==
    /\ activeTab = "app"
    /\ appState # "auth"
    /\ appState' = "auth"
    /\ appError' = ""
    /\ prfOutputHex' = <<>>
    /\ derivedKeysState' = <<>>
    /\ paymentRecord' = <<>>
    /\ UNCHANGED <<activeTab, auth, pay, verifierVars, storeVars, signVars>>
    /\ Commit(FALSE)

\* setActiveTab(tab): the screens of the tab that is left are unmounted and
\* lose their state
SetActiveTab(tab) ==
    /\ tab # activeTab
    /\ activeTab' = tab
    /\ IF activeTab = "verifier"
       THEN /\ jsonInput' = <<>>
            /\ result' = <<>>
            /\ verifierError' = ""
            /\ verifying' = FALSE
            /\ now' = <<>>
       ELSE UNCHANGED verifierVars
    /\ UNCHANGED <<appState, appError, prfOutputHex, derivedKeysState, paymentRecord, auth,
                   pay, storeVars, signVars>>
    /\ Commit(FALSE)

\* JSON.parse throws on a text that does not begin a JSON value; every other
\* text given to the verifier was made by canonicalJsonStringify
JSONParseThrows(text) ==
    \/ text = <<>>
    \/ ~(IsDigit(text[1])
         \/ text[1] \in {Quote[1], OpenBracket[1], OpenBrace[1], NullText[1]})

\* The property of a parsed value that the destructuring reads
Field(parsed, key) ==
    IF parsed[1] = "obj" /\ HasOwn(parsed[2], key) THEN Get(parsed[2], key)
    ELSE <<"undefined">>

\* !value
Falsy(value) ==
    \/ value[1] \in {"undefined", "null"}
    \/ value = <<"str", <<>>>>
    \/ value = <<"num", 0>>

\* The key pairs whose public point has the x and y of a JWK
PointsOf(jwk) ==
    {pair \in KeyPairs :
        /\ Get(jwk[2], XKey) = Get(JwkObject(pair.publicKeyJwk)[2], XKey)
        /\ Get(jwk[2], YKey) = Get(JwkObject(pair.publicKeyJwk)[2], YKey)}

\* crypto.subtle.importKey("jwk", ecdsaPublicKey, ECDSA P-256, true, ["verify"])
\* rejects what is not an EC P-256 public JWK of a point of the curve
importKeyThrows(jwk) ==
    \/ jwk[1] # "obj"
    \/ ~HasAllFour(jwk)
    \/ HasOwn(jwk[2], DKey)
    \/ Get(jwk[2], KtyKey) # Str(EcText)
    \/ Get(jwk[2], CrvKey) # Str(P256Text)
    \/ PointsOf(jwk) = {}

importKey(jwk) == ImportPublicJwk((CHOOSE pair \in PointsOf(jwk) : TRUE).publicKeyJwk)

\* "2026-11-0", the text before the day of a date of the model
DatePrefix == <<50, 48, 50, 54, 45, 49, 49, 45, 48>>

\* The texts new Date() reads as a date: the day of November 2026 and, after
\* "T", the second of that day
IsDateText(text) ==
    /\ Len(text) >= Len(DatePrefix) + 3
    /\ SubSeq(text, 1, Len(DatePrefix)) = DatePrefix
    /\ IsDigit(text[Len(DatePrefix) + 1])
    /\ text[Len(DatePrefix) + 2] = 84
    /\ \A i \in (Len(DatePrefix) + 3)..Len(text) : IsDigit(text[i])

MS_PER_DAY == 86400000

\* new Date(value).getTime(): milliseconds since the eve of 1 November 2026,
\* NaN for what is not a date
DateGetTime(value) ==
    IF value[1] = "str" /\ IsDateText(value[2])
    THEN <<"num", (value[2][Len(DatePrefix) + 1] - 48) * MS_PER_DAY
                    + NumVal(SubSeq(value[2], Len(DatePrefix) + 3, Len(value[2]))) * 1000>>
    ELSE <<"NaN">>

\* Date.now() - sigTime when the verifier runs: the ticket is 10 seconds or
\* 9.999 seconds old, or dated that far after the verifier's clock
ClockOffsets == {0 - 10000, 0 - 9999, 9999, 10000}

\* The readings of Date.now() for a ticket
Clock(signatureDate) ==
    IF DateGetTime(signatureDate)[1] = "num"
    THEN {DateGetTime(signatureDate)[2] + offset : offset \in ClockOffsets}
    ELSE {MS_PER_DAY}

\* now - sigTime, in thousandths of a second, without Math.abs
TimeDeltaSigned(clock, sigTime) ==
    IF sigTime[1] = "NaN" THEN <<"NaN">> ELSE <<"num", clock - sigTime[2]>>

\* Math.abs(now - sigTime) / 1000, kept in thousandths of a second
TimeDelta(clock, sigTime) ==
    IF sigTime[1] = "NaN" THEN <<"NaN">>
    ELSE <<"num", IF clock >= sigTime[2] THEN clock - sigTime[2] ELSE sigTime[2] - clock>>

FRESH_SECONDS == 10

\* ok={result.timeDelta < 10} of the "Time delta" check: "(fresh)" when it
\* holds and "(stale!)" when not; NaN < 10 is false
TimeDeltaOk(timeDelta) == timeDelta[1] = "num" /\ timeDelta[2] < FRESH_SECONDS * 1000

\* An invalid signature reported as an error
VerifyThrowsIfInvalid(text) ==
    LET parsed == JSONParse(text)
        ecdsaPublicKey == Field(parsed, EcdsaPublicKeyKey)
        signature == Field(parsed, SignatureKey)
        failed == IF JSONParseThrows(text) THEN "JSON.parse"
                  ELSE IF parsed[1] \in {"null", "undefined"} THEN "destructuring"
                  ELSE IF \E key \in {EcdsaPublicKeyKey, PaymentRefKey, PaymentDateKey,
                                      SignatureDateKey, SignatureKey} :
                             Falsy(Field(parsed, key))
                       THEN "Missing required fields"
                  ELSE IF importKeyThrows(ecdsaPublicKey) THEN "importKey"
                  ELSE IF signature[1] # "str" THEN "replace"
                  ELSE IF verifySignatureThrows(signature[2]) THEN "verifySignature"
                  ELSE ""
    IN  IF failed # "" THEN failed
        ELSE IF ~verifySignature(kIssued, importKey(ecdsaPublicKey),
                                 canonicalJsonStringify(
                                     PayloadObj(ecdsaPublicKey,
                                                Field(parsed, PaymentDateKey),
                                                Field(parsed, PaymentRefKey),
                                                Field(parsed, SignatureDateKey))),
                                 signature[2])
             THEN "Signature verification FAILED."
        ELSE ""

\* The statement of handleVerify that throws on a text, "" when none does
VerifyThrows(text) ==
    LET parsed == JSONParse(text)
        ecdsaPublicKey == Field(parsed, EcdsaPublicKeyKey)
        signature == Field(parsed, SignatureKey)
    IN  IF JSONParseThrows(text) THEN "JSON.parse"
        ELSE IF parsed[1] \in {"null", "undefined"} THEN "destructuring"
        ELSE IF \E key \in {EcdsaPublicKeyKey, PaymentRefKey, PaymentDateKey,
                            SignatureDateKey, SignatureKey} : Falsy(Field(parsed, key))
             THEN "Missing required fields"
        ELSE IF importKeyThrows(ecdsaPublicKey) THEN "importKey"
        ELSE IF signature[1] # "str" THEN "replace"
        ELSE IF verifySignatureThrows(signature[2]) THEN "verifySignature"
        ELSE ""

\* The result handleVerify sets for a text on which nothing throws
VerificationResult(text, clock) ==
    LET parsed == JSONParse(text)
        ecdsaPublicKey == Field(parsed, EcdsaPublicKeyKey)
        paymentRef == Field(parsed, PaymentRefKey)
        paymentDate == Field(parsed, PaymentDateKey)
        signatureDate == Field(parsed, SignatureDateKey)
        signature == Field(parsed, SignatureKey)
        publicKey == importKey(ecdsaPublicKey)
        payloadObj == PayloadObj(ecdsaPublicKey, paymentDate, paymentRef, signatureDate)
        payloadString == canonicalJsonStringify(payloadObj)
        valid == verifySignature(kIssued, publicKey, payloadString, signature[2])
        sigTime == DateGetTime(signatureDate)
        timeDelta == TimeDelta(clock, sigTime)
        backendRecord == lookupByPublicKey(localStorage, ecdsaPublicKey)
        thumbprint == jwkThumbprint(ecdsaPublicKey)
    IN  [valid |-> valid,
         signatureDate |-> signatureDate,
         paymentRef |-> paymentRef,
         paymentDate |-> paymentDate,
         publicKeyThumbprint |-> thumbprint,
         timeDelta |-> timeDelta,
         backendMatch |-> /\ backendRecord # <<"null">>
                          /\ Field(backendRecord, PaymentRefKey) = paymentRef
                          /\ Field(backendRecord, PaymentDateKey) = paymentDate,
         details |-> IF valid THEN "Signature is cryptographically valid."
                     ELSE "Signature verification FAILED. The data may have been tampered with."]

\* The Aztec code of a ticket: canonicalJsonStringify(fullPayload)
Ticket(made) ==
    canonicalJsonStringify(
        <<"obj", DefineOwn(JSONParse(made.payload)[2], SignatureKey, Str(made.returned))>>)

\* The ticket with one member replaced
TicketWith(made, key, value) ==
    canonicalJsonStringify(
        <<"obj", DefineOwn(JSONParse(Ticket(made))[2], key, value)>>)

\* "seat", a member the ticket screen does not make
SeatKey == <<115, 101, 97, 116>>

\* Texts pasted into the verifier: a ticket, the ticket with another payment
\* reference, with one more member, with a date that is none, with a signature text that is not
\* base64url, without its signature, and a text that is not JSON
VerifierInputs ==
    UNION {{Ticket(made),
            TicketWith(made, PaymentRefKey, Str(PaymentRef(0))),
            TicketWith(made, SeatKey, Str(PaymentRef(0))),
            TicketWith(made, SignatureDateKey, Str(PaymentRef(0))),
            TicketWith(made, SignatureKey, Str(<<65>>)),
            made.payload} : made \in kIssued}
    \cup {PaymentRef(1)}

\* handleVerify up to its first await, on the text onChange put in jsonInput
VerifyStart(text) ==
    /\ activeTab = "verifier"
    /\ ~verifying
    /\ text # <<>>
    /\ jsonInput' = text
    /\ verifierError' = ""
    /\ result' = <<>>
    /\ verifying' = TRUE
    /\ now' = <<>>
    /\ UNCHANGED <<appState, activeTab, appError, prfOutputHex, derivedKeysState,
                   paymentRecord, auth, step, pay, ticketVars, storeVars, signVars>>

\* The rest of handleVerify: try, catch and finally
VerifyFinish(clock) ==
    /\ activeTab = "verifier"
    /\ verifying
    /\ IF VerifyThrows(jsonInput) # ""
       THEN /\ verifierError' = VerifyThrows(jsonInput)
            /\ UNCHANGED <<result, now>>
       ELSE /\ result' = <<VerificationResult(jsonInput, clock)>>
            /\ now' = <<clock>>
            /\ UNCHANGED verifierError
    /\ verifying' = FALSE
    /\ UNCHANGED <<appState, activeTab, appError, prfOutputHex, derivedKeysState,
                   paymentRecord, auth, step, pay, ticketVars, jsonInput, storeVars, signVars>>

Authenticated ==
    /\ \E prfOutput \in AppSecrets : HandleAuthenticated(prfOutput)
    /\ UNCHANGED otherThanApp
DeriveKeysReturn ==
    /\ \E call \in BagToSet(auth), outcome \in {"resolved", "rejected"} :
          DeriveKeysReturns(call, outcome)
    /\ UNCHANGED otherThanApp
LookupReturn == (\E call \in BagToSet(auth) : LookupReturns(call)) /\ UNCHANGED otherThanApp
AuthFailed == AuthFails /\ UNCHANGED otherThanApp
Pay == HandlePay /\ UNCHANGED otherThanApp
PaymentStore == PaymentStored /\ UNCHANGED otherThanApp
PaymentComplete == HandlePaymentComplete /\ UNCHANGED otherThanApp
EffectRun == EffectRuns /\ UNCHANGED otherThanApp
TimerFire == TimerFires /\ UNCHANGED otherThanApp
SignReturn == (\E call \in signing : SignReturns(call)) /\ UNCHANGED otherThanApp
RenderReturn ==
    /\ \E call \in signing, outcome \in {"resolved", "rejected"} : RenderReturns(call, outcome)
    /\ UNCHANGED otherThanApp
Reset == HandleReset /\ UNCHANGED otherThanApp
SwitchTab == (\E tab \in Tabs : SetActiveTab(tab)) /\ UNCHANGED otherThanApp
Verify ==
    /\ activeTab = "verifier"
    /\ ~verifying
    /\ \E text \in VerifierInputs : VerifyStart(text)
    /\ UNCHANGED otherThanApp
Verified ==
    /\ activeTab = "verifier"
    /\ verifying
    /\ \E clock \in IF VerifyThrows(jsonInput) # "" THEN {MS_PER_DAY}
                     ELSE Clock(Field(JSONParse(jsonInput), SignatureDateKey)) :
          VerifyFinish(clock)
    /\ UNCHANGED otherThanApp
ExplorerDelete == activeTab = "backend" /\ Delete
ExplorerClear == activeTab = "backend" /\ Clear

\* The handlers of App, AuthScreen, PaymentScreen and BackendExplorer, and
\* the returns of what they await
NextApp ==
    \/ Authenticated \/ DeriveKeysReturn \/ LookupReturn \/ AuthFailed
    \/ Pay \/ PaymentStore \/ PaymentComplete
    \/ Reset \/ SwitchTab \/ ExplorerDelete \/ ExplorerClear

\* No handler is in flight
Quiescent ==
    /\ auth = EmptyBag
    /\ pay = <<>>
    /\ signing = {}
    /\ ~verifying

\* The user and the timer act when no handler is in flight
CalmAuthenticated == Quiescent /\ Authenticated
CalmPay == Quiescent /\ Pay
CalmEffectRun == Quiescent /\ EffectRun
CalmTimerFire == Quiescent /\ TimerFire
CalmSwitchTab == Quiescent /\ SwitchTab
CalmExplorerDelete == Quiescent /\ ExplorerDelete

\* One authentication at a time
LoneAuthenticated == auth = EmptyBag /\ Authenticated

\* The first payment of the backend, made while no handler is in flight
FirstPay == Quiescent /\ localStorage = {} /\ Pay

\* The effect of TicketScreen and its signAndRender calls, beside the
\* handlers of App and a payment made while no other handler is in flight
NextTicket ==
    \/ LoneAuthenticated \/ DeriveKeysReturn \/ LookupReturn
    \/ FirstPay \/ PaymentStore \/ PaymentComplete
    \/ EffectRun \/ TimerFire \/ SignReturn \/ RenderReturn
    \/ Reset

\* The verifier, beside an application that is used one handler at a time
\* from authentication to its tickets
NextVerifier ==
    \/ CalmAuthenticated \/ DeriveKeysReturn \/ LookupReturn
    \/ CalmPay \/ PaymentStore \/ PaymentComplete
    \/ CalmEffectRun \/ CalmTimerFire \/ SignReturn \/ RenderReturn
    \/ CalmSwitchTab \/ CalmExplorerDelete
    \/ Verify \/ Verified

---------------------------------------------------------------------------
(* Specifications                                                          *)

Init == InitCodec /\ InitIssue /\ InitDerive /\ InitJson /\ InitStore /\ InitSign /\ InitApp

SpecCodec == Init /\ [][NextCodec]_vars

SpecIssue == Init /\ [][NextIssue]_vars

SpecDerive == Init /\ [][NextDerive]_vars

SpecJson == Init /\ [][NextJson]_vars

SpecStore == Init /\ [][NextStore]_vars

SpecSign == Init /\ [][NextSign]_vars

SpecApp == Init /\ [][NextApp]_vars

SpecTicket == Init /\ [][NextTicket]_vars

SpecVerifier == Init /\ [][NextVerifier]_vars

Next ==
    \/ NextCodec \/ NextIssue \/ NextDerive \/ NextJson \/ NextStore \/ NextSign \/ NextApp
    \/ NextTicket \/ NextVerifier

Spec == Init /\ [][Next]_vars

---------------------------------------------------------------------------
(* Properties of the codec                                                 *)

Encoded64 == cOp \in {"encoded", "roundtrip"} /\ Len(cSig) = SigLen /\ ~cThrown

\* 0-based offsets of the two INTEGERs of an encoding, and their value bytes
ROffset(der) == 2
SOffset(der) == 4 + der[4]
IntegerLen(der, off) == der[off + 2]
IntegerValue(der, off) == SubSeq(der, off + 3, off + 2 + der[off + 2])

\* C1: decoding the encoding of a 64-byte fixed-format signature returns
\* that signature byte for byte, whatever its r and s halves are.
C1_RoundTrip ==
    (cOp = "roundtrip" /\ Len(cSig) = SigLen) => (~cThrown /\ cOut = cSig)

\* The round trip of a signature whose r has a leading zero byte and whose s
\* has its top bit set has been made.
C1_Witness ==
    /\ cOp = "roundtrip"
    /\ Len(cSig) = SigLen
    /\ cSig[1] = 0
    /\ cSig[HalfLen] # 0
    /\ cSig[HalfLen + 1] >= 128
    /\ cOut = cSig

MinimalInteger(v) ==
    /\ Len(v) >= 1
    /\ v[1] < 128
    /\ v[1] = 0 => (Len(v) = 1 \/ v[2] >= 128)

\* C2: each INTEGER emitted for a 64-byte input has at least one value
\* byte, its first value byte never has the high bit set, and that byte is
\* 0x00 only for the integer zero or in front of a byte with the high bit set.
C2_CanonicalMinimality ==
    Encoded64 =>
        /\ cDer[ROffset(cDer) + 1] = TAG_INTEGER
        /\ cDer[SOffset(cDer) + 1] = TAG_INTEGER
        /\ MinimalInteger(IntegerValue(cDer, ROffset(cDer)))
        /\ MinimalInteger(IntegerValue(cDer, SOffset(cDer)))
        /\ SOffset(cDer) + 2 + IntegerLen(cDer, SOffset(cDer)) = Len(cDer)

\* An encoding whose r is zero and whose s needed the sign byte.
C2_Witness ==
    /\ Encoded64
    /\ IntegerValue(cDer, ROffset(cDer)) = <<0>>
    /\ Len(IntegerValue(cDer, SOffset(cDer))) = HalfLen + 1
    /\ IntegerValue(cDer, SOffset(cDer))[1] = 0

\* C6: the encoding of every 64-byte signature is 8 to 72 bytes long, no
\* longer than the 72-byte placeholder, and its SEQUENCE and INTEGER length
\* bytes are the true lengths and at most 70 (single-byte DER lengths).
C6_EncodedLengthBounds ==
    Encoded64 =>
        /\ Len(cDer) >= 8
        /\ Len(cDer) <= DummySignatureLen
        /\ cDer[1] = TAG_SEQUENCE
        /\ cDer[2] = Len(cDer) - 2
        /\ cDer[2] <= 70
        /\ IntegerLen(cDer, ROffset(cDer)) <= 70
        /\ IntegerLen(cDer, SOffset(cDer)) <= 70
        /\ 4 + IntegerLen(cDer, ROffset(cDer)) + IntegerLen(cDer, SOffset(cDer)) = cDer[2]

\* The longest encoding, as long as the placeholder, has been produced.
C6_Witness == Encoded64 /\ Len(cDer) = DummySignatureLen

\* What makes a DER signature malformed
BadOuterTag(der) == At(der, 0) # TAG_SEQUENCE
LengthPastEnd(der) ==
    \/ Len(der) < 4
    \/ 2 + der[2] > Len(der)
    \/ 4 + der[4] + 2 > Len(der)
    \/ 4 + der[4] + 2 + der[4 + der[4] + 2] > Len(der)
BadInnerTag(der) ==
    /\ ~LengthPastEnd(der)
    /\ (der[3] # TAG_INTEGER \/ der[SOffset(der) + 1] # TAG_INTEGER)
IntegerTooLong(der) ==
    /\ ~LengthPastEnd(der)
    /\ \/ Len(readDerInteger(der, ROffset(der))) > HalfLen
       \/ Len(readDerInteger(der, SOffset(der))) > HalfLen
MalformedDer(der) ==
    BadOuterTag(der) \/ LengthPastEnd(der) \/ BadInnerTag(der) \/ IntegerTooLong(der)

\* C7: derToP1363 fails with an error on a malformed DER signature (wrong
\* outer or inner tag, a length past the end of the buffer, an integer longer
\* than 32 bytes after stripping) instead of returning 64 bytes.
C7_MalformedRejected ==
    (cOp = "decoded" /\ MalformedDer(cDer)) => cThrown

---------------------------------------------------------------------------
(* Properties of the two-pass issuance                                     *)

\* The level-1 signature field of a document: its length determinant and
\* its value bytes (1-based positions of its first and last byte)
SigFieldFirst(doc) == 2 + LenDetSize(doc, 2) + LenDetValue(doc, 2)
SigFieldLast(doc) ==
    SigFieldFirst(doc) + LenDetSize(doc, SigFieldFirst(doc))
        + LenDetValue(doc, SigFieldFirst(doc)) - 1

BeforeSigField(doc) == SubSeq(doc, 1, SigFieldFirst(doc) - 1)
AfterSigField(doc) == SubSeq(doc, SigFieldLast(doc) + 1, Len(doc))
SigFieldValue(doc) ==
    SubSeq(doc, SigFieldFirst(doc) + LenDetSize(doc, SigFieldFirst(doc)), SigFieldLast(doc))

FinalBytes(o) == HexDecode(iBarcode[o])

FullOrder == <<"encode1", "extract", "sign", "rpc", "encode2">>

IsPrefix(s, t) == Len(s) <= Len(t) /\ s = SubSeq(t, 1, Len(s))

\* C5: an issuance makes its calls in the order pass-1 encode, extract,
\* signWithKms (one asymmetricSign request), pass-2 encode; the signer is
\* called only once extraction has succeeded, at most once and exactly once
\* in a completed issuance, and pass 2 runs only on a returned signature.
C5_FixedStepOrder ==
    \A o \in Ops :
        /\ IsPrefix(iSteps[o], FullOrder)
        /\ iPc[o] = "done" => iSteps[o] = FullOrder
        /\ iPc[o] = "awaitSign" => iSteps[o] = SubSeq(FullOrder, 1, 4)
        /\ iPc[o] = "failed" => Len(iSteps[o]) < Len(FullOrder)
        /\ Len(iSteps[o]) >= 3 =>
            /\ ~ExtractThrows(iPass1[o])
            /\ iSigned[o] = extractSignedData(iPass1[o]).level1DataBytes
        /\ Len(iSteps[o]) = Len(FullOrder) => iSig[o] \in KmsSignatures

\* One issuance has completed and another one has failed at the signer.
C5_Witness ==
    \E o, q \in Ops :
        /\ iPc[o] = "done"
        /\ iSteps[o] = FullOrder
        /\ iPc[q] = "failed"
        /\ iSteps[q] = SubSeq(FullOrder, 1, 4)

\* The stages of the two-pass protocol
Stages == {"Built", "Extracted", "Signed"}

\* C23: the answer to a failed issuance carries the stage, Built, Extracted
\* or Signed, at which the failure occurred.
C23_ErrorNamesStage ==
    \A o \in Ops :
        iPc[o] = "failed" =>
            LET body == PostIssue(iPc[o], iBarcode[o], iError[o]).body
            IN  /\ "stage" \in DOMAIN body
                /\ body.stage \in Stages

\* The messages of signWithKms when the signer cannot be reached or answers
\* without a signature
SignerErrors == {"asymmetricSign rejected", "KMS asymmetricSign returned no signature"}

---------------------------------------------------------------------------
(* Properties of the key derivation                                        *)

C10_DomainSeparation ==
    /\ \A c \in Calls :
        (dLocal[c].aesKey # <<>> /\ dLocal[c].ecdsaScalar # <<>>) =>
            LET aes == dLocal[c].aesKey[1].raw
                ecdsa == dLocal[c].ecdsaScalar[1]
            IN  /\ aes.ikm = dLocal[c].prfOutput[1]
                /\ ecdsa.ikm = dLocal[c].prfOutput[1]
                /\ aes.salt = Sha256(Utf8("dosipas-hkdf-salt-v1"))
                /\ ecdsa.salt = aes.salt
                /\ aes.info # ecdsa.info
    /\ \A u \in dInfoUse, v \in dInfoUse : u.info = v.info => u.purpose = v.purpose

\* A call holds both its AES key and its ECDSA scalar, and both purposes
\* have been served.
C10_Witness ==
    /\ \E c \in Calls : dLocal[c].aesKey # <<>> /\ dLocal[c].ecdsaScalar # <<>>
    /\ Cardinality(dInfoUse) = 2

\* C11: a deriveKeys call whose secret is not exactly 32 bytes long fails
\* and returns no keys (a call that returned keys was given 32 bytes).
C11_WrongLengthSecretFails ==
    /\ \A c \in Calls :
          dPc[c] = "done" => Len(dLocal[c].prfOutput[1]) = PrfLen
    /\ \A e \in dLog : Len(e.prfOutput) = PrfLen

---------------------------------------------------------------------------
(* Properties of the canonical serializer                                  *)

\* C12: two records with the same keys and the same values at every nesting
\* level serialize to identical text, whatever order their keys were
\* inserted in.
C12_InsertionOrderIndependent ==
    \A c, d \in Pair :
        (jOut[c] # <<>> /\ jOut[d] # <<>> /\ SameRecord(jIn[c][1], jIn[d][1]))
            => jOut[c] = jOut[d]

\* Two different objects holding the same nested record have been serialized.
C12_Witness ==
    /\ jOut[1] # <<>> /\ jOut[2] # <<>>
    /\ jIn[1] # jIn[2]
    /\ SameRecord(jIn[1][1], jIn[2][1])
    /\ \E key \in Keys : HasOwn(jIn[1][1][2], key) /\ Get(jIn[1][1][2], key)[1] = "arr"
    /\ jOut[1] = jOut[2]


\* The keys of every object of a text, in the order of the text, ascend
TextKeysAscend(members) ==
    \A i \in 1..(Len(members) - 1) : CodeUnitLess(members[i][1], members[i + 1][1])

RECURSIVE KeysAscendEverywhere(_)
KeysAscendEverywhere(tree) ==
    CASE tree[1] = "arr" -> \A i \in 1..Len(tree[2]) : KeysAscendEverywhere(tree[2][i])
      [] tree[1] = "obj" ->
            /\ TextKeysAscend(tree[2])
            /\ \A i \in 1..Len(tree[2]) : KeysAscendEverywhere(tree[2][i][2])
      [] OTHER -> TRUE

\* Every array of the text holds the elements of the array it was made from,
\* in their order
RECURSIVE ArraysKeepOrder(_, _)
ArraysKeepOrder(value, tree) ==
    CASE tree[1] = "arr" ->
            /\ value[1] = "arr"
            /\ Len(value[2]) = Len(tree[2])
            /\ \A i \in 1..Len(tree[2]) : ArraysKeepOrder(value[2][i], tree[2][i])
      [] tree[1] = "obj" ->
            /\ value[1] = "obj"
            /\ \A i \in 1..Len(tree[2]) :
                  /\ HasOwn(value[2], tree[2][i][1])
                  /\ ArraysKeepOrder(Get(value[2], tree[2][i][1]), tree[2][i][2])
      [] OTHER -> value = tree

\* C13: in the text canonicalJsonStringify returns, the keys of every object
\* at every depth, objects inside arrays included, are in ascending
\* lexicographic order, and the elements of every array are in their original
\* order.
C13_KeysAscendArraysKeepOrder ==
    \A c \in Pair :
        jOut[c] # <<>> =>
            /\ KeysAscendEverywhere(ReadJson(jOut[c][1]))
            /\ ArraysKeepOrder(jIn[c][1], ReadJson(jOut[c][1]))

\* C14: parsing the text canonicalJsonStringify returned for a record and
\* canonicalizing the parsed value again yields exactly the same text.
C14_Idempotent ==
    \A c \in Pair : jAgain[c] # <<>> => jAgain[c] = jOut[c]

\* The text of a record with a nested object, an array and keys inserted out
\* of order has been parsed and canonicalized again.
C14_Witness ==
    \E c \in Pair :
        /\ jAgain[c] # <<>>
        /\ jAgain[c] = jOut[c]
        /\ jIn[c][1] \in NestedRecords
        /\ ObjectKeys(jIn[c][1][2]) = <<KeyB, KeyA>>
        /\ Get(jIn[c][1][2], KeyB)[1] = "arr"
        /\ JSONParse(jOut[c][1]) # jIn[c][1]

---------------------------------------------------------------------------
(* Properties of the thumbprint and of the payment store                   *)

\* Every <<JWK, thumbprint>> the state shows: those of the stored records
\* and that of the last lookup
Thumbprinted ==
    {<<Get(record[2], EcdsaPublicKeyKey), Get(record[2], ThumbprintKey)[2]>> :
        record \in listAllRecords(localStorage)}
    \cup {<<sFound[i].key, sFound[i].thumbprint>> : i \in 1..Len(sFound)}


\* C15: two JWKs that agree on crv, kty, x and y have the same thumbprint,
\* whatever their member order and their other members, and the hashed text
\* lists exactly these four members in the order crv, kty, x, y.
C15_ThumbprintStability ==
    /\ \A a, b \in Thumbprinted : Identity(a[1]) = Identity(b[1]) => a[2] = b[2]
    /\ \A i \in 1..Len(sFound) :
          HasAllFour(sFound[i].key) =>
              /\ ObjectKeys(ReadJson(sFound[i].hashed)[2]) = <<CrvKey, KtyKey, XKey, YKey>>
              /\ [n \in 1..4 |-> ReadJson(sFound[i].hashed)[2][n][2]] = Identity(sFound[i].key)

\* A key stored as { kty, crv, x, y } has been looked up as a JWK with
\* other members in another order, and both have one thumbprint.
C15_Witness ==
    /\ sFound # <<>>
    /\ HasOwn(sFound[1].key[2], DKey)
    /\ ObjectKeys(sFound[1].key[2])[1] = YKey
    /\ \E record \in listAllRecords(localStorage) :
          /\ Get(record[2], EcdsaPublicKeyKey) \in DerivedJwks
          /\ Identity(Get(record[2], EcdsaPublicKeyKey)) = Identity(sFound[1].key)
          /\ Get(record[2], ThumbprintKey)[2] = sFound[1].thumbprint

\* The payments a lookup of the key must find
LiveFor(jwk) == {e \in sLive : e.identity = Identity(jwk)}

\* C16: lookupByPublicKey(k) returns the record with the paymentRef and
\* paymentDate of the latest storePayment made for a key logically equal to
\* k and not deleted or cleared since, and null when there is none.
C16_KeyAddressedStore ==
    \A i \in 1..Len(sFound) :
        IF LiveFor(sFound[i].key) = {}
        THEN sFound[i].result = <<"null">>
        ELSE /\ sFound[i].result[1] = "obj"
             /\ \A e \in LiveFor(sFound[i].key) :
                   /\ Get(sFound[i].result[2], PaymentRefKey) = Str(e.paymentRef)
                   /\ Get(sFound[i].result[2], PaymentDateKey) = Str(e.paymentDate)

\* The second payment of a key, stored under another form of the JWK than
\* the first, has been found by a lookup with yet another form, while
\* another key has no record.
C16_Witness ==
    /\ sFound # <<>>
    /\ sCount = 2
    /\ Cardinality(localStorage) = 1
    /\ sFound[1].result[1] = "obj"
    /\ Get(sFound[1].result[2], PaymentRefKey) = Str(PaymentRef(2))
    /\ Get(sFound[1].result[2], EcdsaPublicKeyKey) # sFound[1].key

\* The items of localStorage whose key has the prefix, and the other items
RecordItems(storage) == {item \in storage : StartsWith(item[1], STORAGE_PREFIX)}
ForeignItems(storage) == storage \ RecordItems(storage)

\* The key, thumbprint, reference and date of the record of an item
Entry(item) ==
    LET record == JSONParse(item[2])
    IN  [identity |-> Identity(Get(record[2], EcdsaPublicKeyKey)),
         thumbprint |-> Get(record[2], ThumbprintKey)[2],
         paymentRef |-> Get(record[2], PaymentRefKey)[2],
         paymentDate |-> Get(record[2], PaymentDateKey)[2]]

\* Every item under the prefix is kept under the key of its thumbprint
\* member, which is the thumbprint of its own ecdsaPublicKey; no two items
\* are of one public key; and the items are exactly the latest payment of
\* each key that was not deleted or cleared since.
StoreInvariant ==
    /\ \A item \in RecordItems(localStorage) :
          LET record == JSONParse(item[2])
          IN  /\ item[1] = StorageKey(Get(record[2], ThumbprintKey)[2])
              /\ Get(record[2], ThumbprintKey) =
                    Str(jwkThumbprint(Get(record[2], EcdsaPublicKeyKey)))
    /\ \A a, b \in RecordItems(localStorage) :
          Entry(a).identity = Entry(b).identity => a = b
    /\ {Entry(item) : item \in RecordItems(localStorage)} = sLive

\* A step removes no item whose key does not start with the prefix
StoreStep == ForeignItems(localStorage) \subseteq ForeignItems(localStorage')

\* C30: after any sequence of storePayment, deleteRecord and clearAllRecords
\* every record under 'dosipas:' + T has thumbprint T, the thumbprint of its
\* own ecdsaPublicKey; there is one record per public key at most, a second
\* storePayment replacing the first; deleteRecord(T) removes that record
\* only; and clearAllRecords removes every item under the prefix and none
\* of the other items of localStorage.
C30_StoreInvariant == [](StoreInvariant) /\ [][StoreStep]_vars

\* Two keys had a record each beside the items of another script, and
\* clearAllRecords has left those items alone.
C30_Witness ==
    /\ sCount = 2
    /\ localStorage = OtherItems

---------------------------------------------------------------------------
(* Properties of signing and verifying                                     *)

\* C19: a text signPayload returned for payload p under a private key
\* verifies under the public key of that key for p and for no other payload,
\* and the bytes handed to crypto.subtle.verify are the 64 bytes
\* crypto.subtle.sign returned.
C19_SignVerifyAgree ==
    \A i \in 1..Len(kVerified) : \A made \in kIssued :
        (/\ kVerified[i].signatureB64u = made.returned
         /\ kVerified[i].publicKey.x = ExportJwk(made.privateKey).x)
            => /\ ~kVerified[i].thrown
               /\ VerifiedBytes(made.returned) = made.signature
               /\ kVerified[i].valid <=> (kVerified[i].payload = made.payload)

\* A signature whose r has leading zero bytes and whose text holds "-" or
\* "_" has been verified for its payload while a second signature exists.
C19_Witness ==
    /\ kVerified # <<>>
    /\ kVerified[1].valid
    /\ Cardinality(kIssued) = 2
    /\ \E made \in kIssued :
          /\ made.returned = kVerified[1].signatureB64u
          /\ made.signature[1] = 0
          /\ \E n \in 1..Len(made.returned) : made.returned[n] \in {45, 95}

---------------------------------------------------------------------------
(* Properties of the application                                           *)

\* sub is a run of consecutive code units of text
Occurs(sub, text) ==
    \E p \in 1..(Len(text) - Len(sub) + 1) :
        text[p] = sub[1] /\ SubSeq(text, p, p + Len(sub) - 1) = sub

\* The texts in which a private key leaves the process: the d member of its
\* exported JWK
PrivateTexts ==
    {CoordinateText(ExportJwk(deriveKeys(s).ecdsaKeyPair.privateKey).d) : s \in AppSecrets}

\* C17: whatever the application and the backend explorer have done, in
\* whatever order their handlers were resumed, every item of localStorage is a record of exactly paymentRef,
\* paymentDate, ecdsaPublicKey and thumbprint, kept under the key of its
\* thumbprint; its ecdsaPublicKey has exactly kty, crv, x and y and is the
\* public JWK of a derived key, its thumbprint is the thumbprint of that JWK,
\* its reference and date are those of a payment made, and no private text
\* occurs anywhere in the item.
C17_StorageHoldsNoSecret ==
    \A item \in localStorage :
        LET record == JSONParse(item[2])
            jwk == Get(record[2], EcdsaPublicKeyKey)
        IN  /\ record[1] = "obj"
            /\ Range(ObjectKeys(record[2])) =
                  {PaymentRefKey, PaymentDateKey, EcdsaPublicKeyKey, ThumbprintKey}
            /\ jwk[1] = "obj"
            /\ Range(ObjectKeys(jwk[2])) = {KtyKey, CrvKey, XKey, YKey}
            /\ \E s \in AppSecrets :
                  SameRecord(jwk, JwkObject(deriveKeys(s).ecdsaKeyPair.publicKeyJwk))
            /\ Get(record[2], ThumbprintKey) = Str(jwkThumbprint(jwk))
            /\ item[1] = StorageKey(jwkThumbprint(jwk))
            /\ \E n \in 1..sCount :
                  /\ Get(record[2], PaymentRefKey) = Str(PaymentRef(n))
                  /\ Get(record[2], PaymentDateKey) = Str(PaymentDate(n))
            /\ \A private \in PrivateTexts :
                  ~Occurs(private, item[1]) /\ ~Occurs(private, item[2])

\* A payment is stored and the ticket screen is given its record.
C17_Witness ==
    /\ localStorage # {}
    /\ appState = "ticket"
    /\ paymentRecord # <<>>

\* C18: once deriveKeys has returned its keys to the application, the
\* application state holds no hex encoding of the secret.
C18_SecretOnlyDuringDerivation ==
    derivedKeysState # <<>> => prfOutputHex = <<>>

\* The texts signPayload returns for 64-byte signatures
SignatureTexts ==
    {signPayload(sig) : sig \in EcdsaSignatures \cup {TicketSignature(n) : n \in 0..MaxTickets}}

\* A text of a ticket: an object whose ecdsaPublicKey is the public JWK of a
\* derived key, whose paymentRef, paymentDate and signatureDate are
\* non-empty strings and whose signature is the text of a 64-byte signature
WellFormedPayload(text) ==
    /\ ~JSONParseThrows(text)
    /\ LET parsed == JSONParse(text)
       IN  /\ parsed[1] = "obj"
           /\ \A key \in {PaymentRefKey, PaymentDateKey, SignatureDateKey, SignatureKey} :
                 /\ Field(parsed, key)[1] = "str"
                 /\ Field(parsed, key)[2] # <<>>
           /\ Field(parsed, EcdsaPublicKeyKey)[1] = "obj"
           /\ \E jwk \in DerivedJwks : SameRecord(Field(parsed, EcdsaPublicKeyKey), jwk)
           /\ Field(parsed, SignatureKey)[2] \in SignatureTexts

\* The signature of the text was made for its ecdsaPublicKey, paymentDate,
\* paymentRef and signatureDate, under its key
SignatureMatches(text) ==
    \E made \in kIssued :
        /\ Field(JSONParse(text), SignatureKey) = Str(made.returned)
        /\ \A key \in {EcdsaPublicKeyKey, PaymentDateKey, PaymentRefKey, SignatureDateKey} :
              SameRecord(Field(JSONParse(text), key), Field(JSONParse(made.payload), key))

\* C20: when handleVerify has set a result or an error, verifying is false;
\* and for a well-formed payload whose signature does not match, it has set
\* a result whose valid is false, and no error.
C20_InvalidIsAResult ==
    (result # <<>> \/ verifierError # "") =>
        /\ ~verifying
        /\ (WellFormedPayload(jsonInput) /\ ~SignatureMatches(jsonInput)) =>
              /\ result # <<>>
              /\ ~result[1].valid
              /\ verifierError = ""

\* A ticket whose payment reference was replaced has been verified.
C20_Witness ==
    /\ ~verifying
    /\ WellFormedPayload(jsonInput)
    /\ ~SignatureMatches(jsonInput)
    /\ result # <<>>
    /\ ~result[1].valid

\* The canonical text of all members of a received object but signature
ReceivedPayload(text) ==
    canonicalJsonStringify(
        <<"obj", SelectSeq(JSONParse(text)[2], LAMBDA prop : prop[1] # SignatureKey)>>)

\* C21: a result with valid true is set only for a text whose members other
\* than signature have the canonical text the signer signed when it made
\* the signature of the text: a text with a member changed or added is
\* not valid.
C21_AnyChangeFails ==
    (result # <<>> /\ result[1].valid) =>
        \E made \in kIssued :
            /\ ReceivedPayload(jsonInput) = made.payload
            /\ Field(JSONParse(jsonInput), SignatureKey) = Str(made.returned)

\* C22: the "Time delta" check of a result is ok exactly when signatureDate is
\* a date less than 10 seconds before or after the reading of the clock:
\* exactly 10 seconds is stale, in the past and in the future, and a stale
\* ticket is flagged whether its signature is valid or not.
C22_FreshnessWindow ==
    result # <<>> =>
        LET sigTime == DateGetTime(result[1].signatureDate)
        IN  TimeDeltaOk(result[1].timeDelta) <=>
               /\ sigTime[1] = "num"
               /\ now[1] - sigTime[2] > 0 - 10000
               /\ now[1] - sigTime[2] < 10000

\* A ticket with a valid signature, dated exactly 10 seconds before the
\* verifier's clock, is shown as stale.
C22_Witness ==
    /\ result # <<>>
    /\ result[1].valid
    /\ DateGetTime(result[1].signatureDate)[1] = "num"
    /\ now[1] - DateGetTime(result[1].signatureDate)[2] = 10000
    /\ ~TimeDeltaOk(result[1].timeDelta)

\* The public JWK of the keys derived from a PRF output
JwkOf(prfOutput) == JwkObject(deriveKeys(prfOutput).ecdsaKeyPair.publicKeyJwk)

\* The step in which a handleAuthenticated call returns
AuthReturns(call) == call \in BagToSet(auth) /\ auth' = auth (-) OneCall(call)

\* The step in which handlePaymentComplete returns
PaymentCompleteReturns == pay # <<>> /\ pay[1].pc = "onPaymentComplete" /\ pay' = <<>>

\* What a handler's return leaves in the state of App
Routing ==
    /\ \A call \in BagToSet(auth) :
          AuthReturns(call) =>
              LET record == lookupByPublicKey(localStorage, JwkOf(call.prfOutput))
              IN  IF call.pc = "deriveKeys"
                  THEN appState' = "error" /\ appError' # ""
                  ELSE /\ appState' = "ticket" <=> record # <<"null">>
                       /\ appState' = "payment" <=> record = <<"null">>
                       /\ record # <<"null">> => paymentRecord' = <<record>>
    /\ PaymentCompleteReturns =>
          LET record == lookupByPublicKey(localStorage',
                            PaymentScreenKey(pay[1].derivedKeysState))
          IN  IF record = <<"null">>
              THEN appState' = "error" /\ appError' # ""
              ELSE appState' = "ticket" /\ paymentRecord' = <<record>>
    /\ (appState # "ticket" /\ appState' = "ticket") =>
          /\ paymentRecord' # <<>>
          /\ lookupByPublicKey(localStorage',
                               Get(paymentRecord'[1][2], EcdsaPublicKeyKey))
                = paymentRecord'[1]

\* C26: a handleAuthenticated call that returns from its lookup leaves the
\* application in "ticket" if the backend holds a record for the key derived
\* from its PRF output, and in "payment" if not; one whose derivation throws
\* leaves it in "error" with a message. handlePaymentComplete leaves it in
\* "ticket" if it finds the record of its key, and in "error" if not; and
\* the application enters "ticket" with a record the backend holds.
C26_RoutingAfterAuthentication == [][Routing]_vars

\* The record of a payment was deleted in the backend explorer before
\* handlePaymentComplete looked it up.
C26_Witness ==
    /\ appState = "error"
    /\ appError = "Payment record not found after storage."
    /\ sCount = 1
    /\ localStorage = {}

\* C27: when the application holds derived keys and a payment record, the
\* thumbprint of the record is the thumbprint of the public key of the keys.
C27_RecordBelongsToKeys ==
    (derivedKeysState # <<>> /\ paymentRecord # <<>>) =>
        Get(paymentRecord[1][2], ThumbprintKey)
            = Str(jwkThumbprint(PaymentScreenKey(derivedKeysState[1])))

\* C28: in "ticket" the application holds derived keys and a payment record;
\* and while no authentication has started since the last reset it is in
\* "auth", or in "error" after a failed ceremony, and holds no derived keys
\* and no payment record.
C28_ResetClears ==
    /\ appState = "ticket" => (derivedKeysState # <<>> /\ paymentRecord # <<>>)
    /\ prfOutputHex = <<>> =>
          /\ appState \in {"auth", "error"}
          /\ derivedKeysState = <<>>
          /\ paymentRecord = <<>>

\* The displayed payload has ecdsaPublicKey, paymentDate, paymentRef,
\* signatureDate and signature, and its signature is the text signPayload
\* returned for the canonical text of the other four, made under the
\* private key of its ecdsaPublicKey
DisplayedIsSigned ==
    signedPayload # <<>> =>
        /\ Range(ObjectKeys(signedPayload[1][2])) =
              {EcdsaPublicKeyKey, PaymentDateKey, PaymentRefKey, SignatureDateKey,
               SignatureKey}
        /\ \E made \in kIssued :
              /\ made.payload = ReceivedPayload(canonicalJsonStringify(signedPayload[1]))
              /\ Str(made.returned) = Get(signedPayload[1][2], SignatureKey)
              /\ JwkObject(PublicJwk(ExportJwk(made.privateKey)))
                    = Get(signedPayload[1][2], EcdsaPublicKeyKey)

\* The signatureDate of a payload text
DateOf(payload) == Get(JSONParse(payload)[2], SignatureDateKey)

\* The calls that are not cancelled are those of the live effect, and no two
\* calls have one signatureDate
CallsOfLiveEffect ==
    /\ \A call \in signing : ~call.cancelled => (interval # <<>> /\ call.props = interval[1])
    /\ \A a, b \in kIssued : DateOf(a.payload) = DateOf(b.payload) => a = b
    /\ \A call \in signing :
          call.pc = "signPayload" =>
              \A made \in kIssued : DateOf(made.payload) # Str(SignatureDate(1, call.n))
    /\ \A a, b \in signing : a.n = b.n => a = b

\* The effect starts a call when it runs; a call is started under the live
\* effect only; and a cancelled call that leaves signAndRender or runs on
\* sets nothing
TicketStep ==
    /\ (interval = <<>> /\ interval' # <<>>) =>
          \E call \in signing' \ signing :
              call.pc = "signPayload" /\ ~call.cancelled /\ call.props = interval'[1]
    /\ \A call \in signing' :
          (call.pc = "signPayload" /\ \A old \in signing : old.n # call.n) =>
              (interval' # <<>> /\ call.props = interval'[1] /\ ~call.cancelled)
    /\ \A call \in signing :
          (call.cancelled /\ call \notin signing') =>
              UNCHANGED <<signedPayload, sigCount, ticketError>>

\* C29: the effect of the ticket screen starts a signing with a new
\* signatureDate when it runs, and its timer starts the others; the displayed
\* payload carries the signature made for the canonical JSON of exactly its
\* own ecdsaPublicKey, paymentDate, paymentRef and signatureDate; and after
\* the cleanup of an effect its calls in flight set neither the payload, the
\* counter nor the error, and no call is started for it.
C29_PeriodicSigning == [](DisplayedIsSigned /\ CallsOfLiveEffect) /\ [][TicketStep]_vars

\* A call of an effect that was cleaned up is still in flight while the
\* ticket screen shows the payload of a later effect.
C29_Witness ==
    /\ interval # <<>>
    /\ signedPayload # <<>>
    /\ \E call \in signing : call.cancelled /\ call.pc = "signPayload"

===========================================================================
